---- MODULE Spec2Model ----
(***************************************************************************)
(* supabase-mcp-lite: the tool handlers of src/src/index.ts and of the    *)
(* management-API variants of src/unnamed, and the module-global project  *)
(* key cache of the personal-access-token variant.                        *)
(*                                                                         *)
(* A tool invocation is a JavaScript async function: it runs atomically   *)
(* from one await to the next.  Each such run is one action here, and     *)
(* invocations interleave at the awaits (the key-issuance fetch, the read *)
(* of its body, the return of getProjectKeys to the handler, the          *)
(* data/storage/auth request and the read of a downloaded file).          *)
(***************************************************************************)
EXTENDS Naturals, Sequences, FiniteSets

(***************************************************************************)
(* Bounds of the model.                                                    *)
(***************************************************************************)
MaxInvocations == 3   \* tool invocations started in one behaviour
ExtraRows      == 1   \* the upstream holds up to 100 + ExtraRows rows

(***************************************************************************)
(* Program constants.                                                      *)
(***************************************************************************)
DefaultLimit   == 100   \* select: limit = 100
StorageListMax == 100   \* storage list: files?.slice(0, 100)
AuthListMax    == 100   \* auth list: users.slice(0, 100)

(***************************************************************************)
(* Strings that the code inspects character by character are sequences of *)
(* one-character strings.                                                  *)
(***************************************************************************)
HttpsPrefix == <<"h", "t", "t", "p", "s", ":", "/", "/">>
HttpPrefix  == <<"h", "t", "t", "p", ":", "/", "/">>
SupabaseCo  == <<".", "s", "u", "p", "a", "b", "a", "s", "e", ".", "c", "o">>

IdAB == <<"a", "b">>
IdCD == <<"c", "d">>
IdConstructor == <<"c", "o", "n", "s", "t", "r", "u", "c", "t", "o", "r">>

UrlAB      == HttpsPrefix \o IdAB \o SupabaseCo                  \* https://ab.supabase.co
UrlCD      == HttpsPrefix \o IdCD \o SupabaseCo                  \* https://cd.supabase.co
UrlABEvil  == UrlAB \o <<".", "e", "v">>                         \* https://ab.supabase.co.ev
UrlABCom   == UrlAB \o <<"m">>                                   \* https://ab.supabase.com
UrlPrefixed == <<"x">> \o UrlCD                                 \* xhttps://cd.supabase.co
UrlInPath  == HttpsPrefix \o <<"e", "v", "/">> \o IdAB \o SupabaseCo  \* https://ev/ab.supabase.co
UrlExample == HttpsPrefix \o <<"a", "b", "c", "1", "2", "3">>
                  \o <<".", "e", "x", "a", "m", "p", "l", "e", ".", "c", "o">>
                                                  \* https://abc123.example.co
UrlHttp    == HttpPrefix \o IdAB \o SupabaseCo                   \* http://ab.supabase.co
UrlNoId    == HttpsPrefix \o SupabaseCo                          \* https://.supabase.co
UrlConstructor == HttpsPrefix \o IdConstructor \o SupabaseCo    \* https://constructor.supabase.co

Urls == {UrlAB, UrlCD, UrlABEvil, UrlABCom, UrlPrefixed, UrlInPath,
         UrlExample, UrlHttp, UrlNoId, UrlConstructor}

(***************************************************************************)
(* extractProjectId: projectUrl.match(/https:\/\/([^.]+)\.supabase\.co/). *)
(* The pattern has no ^ or $, so String.match finds the leftmost place    *)
(* where it matches.  [^.]+ cannot cross a dot and must be followed by a   *)
(* dot, so from a given start the group ends at the next dot.             *)
(***************************************************************************)
HasAt(s, i, w) ==
    /\ i >= 1
    /\ i + Len(w) - 1 <= Len(s)
    /\ SubSeq(s, i, i + Len(w) - 1) = w

\* The index of the first "." of s at or after i (Len(s) + 1 when none).
NextDot(s, i) ==
    LET dots == {j \in i..Len(s) : s[j] = "."}
    IN  IF dots = {} THEN Len(s) + 1
        ELSE CHOOSE j \in dots : \A k \in dots : j <= k

\* The pattern matches s starting at index i.
MatchesAt(s, i) ==
    LET g == i + Len(HttpsPrefix)
        d == NextDot(s, g)
    IN  /\ HasAt(s, i, HttpsPrefix)
        /\ d > g
        /\ HasAt(s, d, SupabaseCo)

\* A JavaScript value that is undefined, the empty string, and a string
\* (a tuple of its parts).
Undefined   == <<"undefined">>
EmptyString == << >>
Truthy(v)   == v # Undefined /\ v # EmptyString

\* An error object: new Error(message) has a message only; the errors of the
\* upstream SDK also carry details, hint, code, status or statusCode.
ErrorObject(name, message, details, hint, code, status, statusCode) ==
    [name |-> name, message |-> message, details |-> details, hint |-> hint,
     code |-> code, status |-> status, statusCode |-> statusCode]
JsError(message) ==
    ErrorObject("Error", message, Undefined, Undefined, Undefined, Undefined, Undefined)

\* The two ways a function ends.
Thrown(error) == [ok |-> FALSE, error |-> error]
Returned(v)   == [ok |-> TRUE, value |-> v]

extractProjectId(projectUrl) ==
    LET starts == {i \in 1..Len(projectUrl) : MatchesAt(projectUrl, i)}
    IN  IF starts = {}
        THEN Thrown(JsError(<<"Invalid Supabase project URL">>))
        ELSE LET i == CHOOSE j \in starts : \A k \in starts : j <= k
                 g == i + Len(HttpsPrefix)
             IN  Returned(SubSeq(projectUrl, g, NextDot(projectUrl, g) - 1))

\* Every project id that extractProjectId yields on the URLs of the model.
ProjectIds == {extractProjectId(u).value : u \in {v \in Urls : extractProjectId(v).ok}}

(***************************************************************************)
(* The upstream key-issuance endpoint,                                     *)
(* GET https://api.supabase.com/v1/projects/{id}/api-keys.  It knows two  *)
(* projects; each has a key list, a sequence of {name, api_key} entries,  *)
(* which the project's owner may change at any time (rotation).  A        *)
(* string value is a tuple here, the empty string the empty tuple.        *)
(***************************************************************************)
UpstreamProjects == {IdAB, IdCD}

ApiKey(id, role, version) == <<id, role, version>>

KeyEntry(name, key) == [name |-> name, api_key |-> key]

KeyListFull(id, v) ==
    <<KeyEntry("anon", ApiKey(id, "anon", 1)),
      KeyEntry("service_role", ApiKey(id, "service_role", v))>>
KeyListNoAnon(id)       == <<KeyEntry("service_role", ApiKey(id, "service_role", 1))>>
KeyListNoService(id)    == <<KeyEntry("anon", ApiKey(id, "anon", 1))>>
KeyListEmptyService(id) ==
    <<KeyEntry("anon", ApiKey(id, "anon", 1)), KeyEntry("service_role", EmptyString)>>

\* The key lists a project can start with, and the list after its owner
\* has rolled the service_role key.
KeyLists(id) ==
    IF id = IdAB
    THEN {KeyListFull(id, 1), KeyListNoService(id), KeyListEmptyService(id)}
    ELSE {KeyListNoAnon(id)}
KeyListRolled(id) == KeyListFull(id, 2)

\* The personal access tokens of two sessions, and the projects whose keys
\* the endpoint gives to each.
SbpPrefix == <<"s", "b", "p", "_">>
TokenA == SbpPrefix \o <<"A">>
TokenB == SbpPrefix \o <<"B">>
Tokens == {TokenA, TokenB}
Accepts(token, id) == token = TokenA \/ (token = TokenB /\ id = IdCD)

\* keys.find((k) => k.name === name)?.api_key
FindApiKey(keys, name) ==
    LET hits == {i \in 1..Len(keys) : keys[i].name = name}
    IN  IF hits = {} THEN Undefined
        ELSE keys[CHOOSE i \in hits : \A j \in hits : i <= j].api_key

\* What fetch gives back: a rejection (no answer at all) or a response.  The
\* endpoint answers 404 for a project it does not know, 401 for a token it
\* does not accept for the project, and 200 with the key list otherwise.
FetchRejected == [rejected |-> TRUE, ok |-> FALSE, status |-> 0,
                  statusText |-> "", body |-> << >>]
HttpResponse(status, statusText, body) ==
    [rejected |-> FALSE, ok |-> status \in 200..299, status |-> status,
     statusText |-> statusText, body |-> body]

ApiKeysEndpoint(keyLists, id, bearer) ==
    IF id \notin UpstreamProjects THEN HttpResponse(404, "Not Found", << >>)
    ELSE IF ~Accepts(bearer, id) THEN HttpResponse(401, "Unauthorized", << >>)
    ELSE HttpResponse(200, "OK", keyLists[id])

\* The other endpoints of the management API: the project list of the
\* token (401 for a token that is none of the known ones), the database
\* context of a project with its schemas, and the query endpoint, which
\* answers 201 with the rows.
ProjectsOf(bearer) == IF bearer = TokenA THEN <<IdAB, IdCD>> ELSE <<IdCD>>
SchemaList(n) == [k \in 1..n |-> <<"schema", k - 1>>]
ManagementEndpoint(keyLists, request, schemas) ==
    IF request.kind = "api-keys"
    THEN ApiKeysEndpoint(keyLists, request.project, request.bearer)
    ELSE IF request.op = "projects"
    THEN IF request.bearer \notin Tokens THEN HttpResponse(401, "Unauthorized", << >>)
         ELSE HttpResponse(200, "OK", ProjectsOf(request.bearer))
    ELSE IF request.project \notin UpstreamProjects
    THEN HttpResponse(404, "Not Found", << >>)
    ELSE IF ~Accepts(request.bearer, request.project)
    THEN HttpResponse(401, "Unauthorized", << >>)
    ELSE IF request.op = "context"
    THEN HttpResponse(200, "OK", [databases |-> <<[schemas |-> SchemaList(schemas)]>>])
    ELSE HttpResponse(201, "Created", <<[result |-> request.query]>>)

(***************************************************************************)
(* projectKeyCache and getProjectKeys.  The cache is a function from the  *)
(* cached project ids to {serviceRoleKey, anonKey}.                       *)
(***************************************************************************)
EmptyCache == [id \in {} |-> Undefined]

\* Mutant: the pair is written under every id the cache holds.
CachePutEverywhere(cache, id, pair) ==
    [p \in DOMAIN cache \cup {id} |-> pair]

CachePut(cache, id, pair) ==
    [p \in DOMAIN cache \cup {id} |-> IF p = id THEN pair ELSE cache[p]]

\* Mutant: the cache is never consulted.
getProjectKeysNeverCached(cache, projectId) == FALSE

\* projectKeyCache is an object literal, so projectKeyCache[projectId] also
\* finds what every object inherits from Object.prototype: constructor,
\* toString, valueOf, hasOwnProperty and the rest are functions and
\* __proto__ is Object.prototype itself, all truthy and none with a
\* serviceRoleKey property.
InheritedKeys ==
    {IdConstructor,
     <<"_", "_", "p", "r", "o", "t", "o", "_", "_">>,
     <<"h", "a", "s", "O", "w", "n", "P", "r", "o", "p", "e", "r", "t", "y">>,
     <<"i", "s", "P", "r", "o", "t", "o", "t", "y", "p", "e", "O", "f">>,
     <<"p", "r", "o", "p", "e", "r", "t", "y", "I", "s", "E", "n", "u", "m", "e", "r", "a", "b", "l", "e">>,
     <<"t", "o", "L", "o", "c", "a", "l", "e", "S", "t", "r", "i", "n", "g">>,
     <<"t", "o", "S", "t", "r", "i", "n", "g">>,
     <<"v", "a", "l", "u", "e", "O", "f">>,
     <<"_", "_", "d", "e", "f", "i", "n", "e", "G", "e", "t", "t", "e", "r", "_", "_">>,
     <<"_", "_", "d", "e", "f", "i", "n", "e", "S", "e", "t", "t", "e", "r", "_", "_">>,
     <<"_", "_", "l", "o", "o", "k", "u", "p", "G", "e", "t", "t", "e", "r", "_", "_">>,
     <<"_", "_", "l", "o", "o", "k", "u", "p", "S", "e", "t", "t", "e", "r", "_", "_">>}
CacheGet(cache, projectId) ==
    IF projectId \in DOMAIN cache THEN cache[projectId]
    ELSE [serviceRoleKey |-> Undefined, anonKey |-> Undefined]

\* if (projectKeyCache[projectId]) return projectKeyCache[projectId];
getProjectKeysCached(cache, projectId) ==
    projectId \in DOMAIN cache \/ projectId \in InheritedKeys

\* Mutant: the pair is returned but never written to the cache.
getProjectKeysFetchedNotStored(cache, projectId, response) ==
    IF response.rejected
    THEN <<cache, Thrown(JsError(<<"fetch failed">>))>>
    ELSE IF ~response.ok
    THEN <<cache, Thrown(JsError(<<"Failed to fetch project keys: ",
                                   response.status, " ", response.statusText>>))>>
    ELSE LET serviceRoleKey == FindApiKey(response.body, "service_role")
             anonKey        == FindApiKey(response.body, "anon")
             pair == [serviceRoleKey |-> serviceRoleKey, anonKey |-> anonKey]
         IN  IF ~Truthy(serviceRoleKey)
             THEN <<cache, Thrown(JsError(<<"Service role key not found in project keys">>))>>
             ELSE <<cache, Returned(pair)>>

\* Mutant: an entry already in the cache is not overwritten.
getProjectKeysFetchedFirstWins(cache, projectId, response) ==
    IF response.rejected
    THEN <<cache, Thrown(JsError(<<"fetch failed">>))>>
    ELSE IF ~response.ok
    THEN <<cache, Thrown(JsError(<<"Failed to fetch project keys: ",
                                   response.status, " ", response.statusText>>))>>
    ELSE LET serviceRoleKey == FindApiKey(response.body, "service_role")
             anonKey        == FindApiKey(response.body, "anon")
             pair == [serviceRoleKey |-> serviceRoleKey, anonKey |-> anonKey]
         IN  IF ~Truthy(serviceRoleKey)
             THEN <<cache, Thrown(JsError(<<"Service role key not found in project keys">>))>>
             ELSE IF projectId \in DOMAIN cache
             THEN <<cache, Returned(pair)>>
             ELSE <<CachePut(cache, projectId, pair), Returned(pair)>>

\* Mutant: response.ok is not checked.
getProjectKeysFetchedNoStatusCheck(cache, projectId, response) ==
    IF response.rejected
    THEN <<cache, Thrown(JsError(<<"fetch failed">>))>>
    ELSE LET serviceRoleKey == FindApiKey(response.body, "service_role")
             anonKey        == FindApiKey(response.body, "anon")
             pair == [serviceRoleKey |-> serviceRoleKey, anonKey |-> anonKey]
         IN  IF ~Truthy(serviceRoleKey)
             THEN <<cache, Thrown(JsError(<<"Service role key not found in project keys">>))>>
             ELSE <<CachePut(cache, projectId, pair), Returned(pair)>>

\* Mutant: a missing service role key is not checked.
getProjectKeysFetchedNoServiceCheck(cache, projectId, response) ==
    IF response.rejected
    THEN <<cache, Thrown(JsError(<<"fetch failed">>))>>
    ELSE IF ~response.ok
    THEN <<cache, Thrown(JsError(<<"Failed to fetch project keys: ",
                                   response.status, " ", response.statusText>>))>>
    ELSE LET serviceRoleKey == FindApiKey(response.body, "service_role")
             anonKey        == FindApiKey(response.body, "anon")
             pair == [serviceRoleKey |-> serviceRoleKey, anonKey |-> anonKey]
         IN  IF FALSE
             THEN <<cache, Thrown(JsError(<<"Service role key not found in project keys">>))>>
             ELSE <<CachePut(cache, projectId, pair), Returned(pair)>>

\* The rest of getProjectKeys, from the answer of fetch on: the pair
\* <<cache afterwards, result>>.
getProjectKeysFetchedEvicting(cache, projectId, response) ==
    IF response.rejected \/ ~response.ok
    THEN <<[k \in DOMAIN cache \ {projectId} |-> cache[k]],
           Thrown(JsError(<<"fetch failed">>))>>
    ELSE LET serviceRoleKey == FindApiKey(response.body, "service_role")
             anonKey        == FindApiKey(response.body, "anon")
             pair == [serviceRoleKey |-> serviceRoleKey, anonKey |-> anonKey]
         IN  IF ~Truthy(serviceRoleKey)
             THEN <<cache, Thrown(JsError(<<"Service role key not found in project keys">>))>>
             ELSE <<CachePut(cache, projectId, pair), Returned(pair)>>

\* Mutant: a successful fetch replaces the whole cache by its own entry.
getProjectKeysFetchedReplacing(cache, projectId, response) ==
    IF response.rejected
    THEN <<cache, Thrown(JsError(<<"fetch failed">>))>>
    ELSE IF ~response.ok
    THEN <<cache, Thrown(JsError(<<"Failed to fetch project keys: ",
                                   response.status, " ", response.statusText>>))>>
    ELSE LET serviceRoleKey == FindApiKey(response.body, "service_role")
             anonKey        == FindApiKey(response.body, "anon")
             pair == [serviceRoleKey |-> serviceRoleKey, anonKey |-> anonKey]
         IN  IF ~Truthy(serviceRoleKey)
             THEN <<cache, Thrown(JsError(<<"Service role key not found in project keys">>))>>
             ELSE <<CachePut(EmptyCache, projectId, pair), Returned(pair)>>

\* Mutant: a refused fetch is passed over and a pair is returned all the same.
getProjectKeysFetchedLenient(cache, projectId, response) ==
    IF response.rejected
    THEN <<cache, Thrown(JsError(<<"fetch failed">>))>>
    ELSE IF ~response.ok
    THEN <<cache, Returned([serviceRoleKey |-> <<"no key">>, anonKey |-> Undefined])>>
    ELSE LET serviceRoleKey == FindApiKey(response.body, "service_role")
             anonKey        == FindApiKey(response.body, "anon")
             pair == [serviceRoleKey |-> serviceRoleKey, anonKey |-> anonKey]
         IN  IF ~Truthy(serviceRoleKey)
             THEN <<cache, Thrown(JsError(<<"Service role key not found in project keys">>))>>
             ELSE <<CachePut(cache, projectId, pair), Returned(pair)>>

\* Mutant: a fetch that failed on the network is remembered as an entry
\* without keys.
getProjectKeysFetchedRemembersFailure(cache, projectId, response) ==
    IF response.rejected
    THEN <<CachePut(cache, projectId, [serviceRoleKey |-> Undefined, anonKey |-> Undefined]),
           Thrown(JsError(<<"fetch failed">>))>>
    ELSE IF ~response.ok
    THEN <<cache, Thrown(JsError(<<"Failed to fetch project keys: ",
                                   response.status, " ", response.statusText>>))>>
    ELSE LET serviceRoleKey == FindApiKey(response.body, "service_role")
             anonKey        == FindApiKey(response.body, "anon")
             pair == [serviceRoleKey |-> serviceRoleKey, anonKey |-> anonKey]
         IN  IF ~Truthy(serviceRoleKey)
             THEN <<cache, Thrown(JsError(<<"Service role key not found in project keys">>))>>
             ELSE <<CachePut(cache, projectId, pair), Returned(pair)>>

getProjectKeysFetched(cache, projectId, response) ==
    IF response.rejected
    THEN <<cache, Thrown(JsError(<<"fetch failed">>))>>
    ELSE IF ~response.ok
    THEN <<cache, Thrown(JsError(<<"Failed to fetch project keys: ",
                                   response.status, " ", response.statusText>>))>>
    ELSE LET serviceRoleKey == FindApiKey(response.body, "service_role")
             anonKey        == FindApiKey(response.body, "anon")
             pair == [serviceRoleKey |-> serviceRoleKey, anonKey |-> anonKey]
         IN  IF ~Truthy(serviceRoleKey)
             THEN <<cache, Thrown(JsError(<<"Service role key not found in project keys">>))>>
             ELSE <<CachePut(cache, projectId, pair), Returned(pair)>>

(***************************************************************************)
(* Tool arguments.  An optional string argument is Undefined when absent; *)
(* the optional number limit is {} when absent and {n} when given; where  *)
(* is the sequence of the entries of the filter object.                   *)
(***************************************************************************)
Args(tool, action, where, limit, data, path, email, password, id) ==
    [tool |-> tool, action |-> action, where |-> where, limit |-> limit,
     data |-> data, path |-> path, email |-> email, password |-> password,
     id |-> id]

\* One invocation: the arguments, the variant of the server that handles it,
\* the access token of its session and the projectUrl argument (both used
\* by the token variant only).
Invocation(variant, accessToken, projectUrl, args) ==
    [variant |-> variant, accessToken |-> accessToken,
     projectUrl |-> projectUrl, args |-> args]

\* The config argument of createServer: absent altogether, or an object whose
\* fields may be absent.  The token variant reads accessToken, the others
\* supabaseUrl and supabaseKey.
Config(present, accessToken, supabaseUrl, supabaseKey) ==
    [present |-> present, accessToken |-> accessToken,
     supabaseUrl |-> supabaseUrl, supabaseKey |-> supabaseKey]

\* The configuration of a working static-key server.
StaticConfig ==
    [supabaseUrl |-> UrlAB, supabaseKey |-> ApiKey(IdAB, "service_role", 1)]

\* config?.field: undefined when there is no config.
FieldOf(config, field) == IF config.present THEN config[field] ELSE Undefined

ToolNames == {"select", "mutate", "storage", "auth"}

\* createServer of the token variant: the tool names it registers.
createServer(config) ==
    IF ~Truthy(FieldOf(config, "accessToken")) THEN Returned({})
    ELSE IF ~HasAt(config.accessToken, 1, SbpPrefix) THEN Returned({})
    ELSE Returned(ToolNames)

\* createServer of the static-key variant.
staticCreateServer(config) ==
    IF ~Truthy(FieldOf(config, "supabaseUrl")) \/ ~Truthy(FieldOf(config, "supabaseKey"))
    THEN Returned({})
    ELSE Returned(ToolNames)

\* config.field without the ?. (or data[k].api_key past the end of the
\* body): a TypeError whose message names the property read.
ReadOfUndefined(property) ==
    [name |-> "TypeError",
     message |-> <<"Cannot read properties of undefined (reading '", property, "')">>,
     details |-> Undefined, hint |-> Undefined, code |-> Undefined,
     status |-> Undefined, statusCode |-> Undefined]

\* createServer of the handler-style variant.
handlerCreateServer(config) ==
    IF ~config.present THEN Thrown(ReadOfUndefined("supabaseUrl"))
    ELSE IF ~Truthy(config.supabaseUrl) \/ ~Truthy(config.supabaseKey)
    THEN Returned({})
    ELSE Returned(ToolNames)

\* createServer of the SQL variant: no check of the configuration precedes
\* createClient, which throws when it is given no URL or no key.
sqlCreateServer(config) ==
    IF ~config.present THEN Thrown(ReadOfUndefined("supabaseUrl"))
    ELSE IF ~Truthy(config.supabaseUrl)
    THEN Thrown(JsError(<<"supabaseUrl is required.">>))
    ELSE IF ~Truthy(config.supabaseKey)
    THEN Thrown(JsError(<<"supabaseKey is required.">>))
    ELSE Returned(ToolNames \cup {"query"})

\* createServer of the two management-API variants: nothing is read from the
\* configuration at startup and the tools are registered whatever it holds.
ManagementTools == {"get_access_key", "get_project_list", "get_table_list", "excute_query"}
ListingTools    == {"check_access_key", "get_project_list", "get_table_list"}
managementCreateServer(config) == Returned(ManagementTools)
listingCreateServer(config)    == Returned(ListingTools)

createServerOf(variant, config) ==
    CASE variant = "token"      -> createServer(config)
      [] variant = "static"     -> staticCreateServer(config)
      [] variant = "handler"    -> handlerCreateServer(config)
      [] variant = "sql"        -> sqlCreateServer(config)
      [] variant = "management" -> managementCreateServer(config)
      [] variant = "listing"    -> listingCreateServer(config)

\* createClient(url, key): where the requests of the client go, and the key
\* they carry.
createClient(url, key) == [url |-> url, apikey |-> key]

\* One request to the data, storage or auth API.
Request(op, filters, limit, arg) ==
    [op |-> op, filters |-> filters, limit |-> limit, arg |-> arg]

\* select: from(table).select('*'), one .eq per entry of where, .limit(limit)
\* with limit = 100 when the argument is absent.
EffectiveLimit(limit) ==
    IF limit = {} THEN DefaultLimit ELSE CHOOSE n \in limit : TRUE

\* Mutant: the read is issued without the .eq constraints.
selectRequestNoFilters(a) ==
    Returned(Request("select", << >>, {EffectiveLimit(a.limit)}, Undefined))

selectRequest(a) ==
    Returned(Request("select", a.where, {EffectiveLimit(a.limit)}, Undefined))

\* Mutant: update and delete refuse to run without a filter.
mutateRequestFiltersRequired(a) ==
    CASE a.action = "insert" ->
           IF ~Truthy(a.data)
           THEN Thrown(JsError(<<"Data required for insert">>))
           ELSE Returned(Request("insert", << >>, {}, a.data))
      [] a.action = "update" ->
           IF ~Truthy(a.data)
           THEN Thrown(JsError(<<"Data required for update">>))
           ELSE IF a.where = << >>
           THEN Thrown(JsError(<<"Filters required for update">>))
           ELSE Returned(Request("update", a.where, {}, a.data))
      [] a.action = "delete" ->
           IF a.where = << >>
           THEN Thrown(JsError(<<"Filters required for delete">>))
           ELSE Returned(Request("delete", a.where, {}, Undefined))

\* mutate: the switch on action, up to the request it awaits.
mutateRequest(a) ==
    CASE a.action = "insert" ->
           IF ~Truthy(a.data)
           THEN Thrown(JsError(<<"Data required for insert">>))
           ELSE Returned(Request("insert", << >>, {}, a.data))
      [] a.action = "update" ->
           IF ~Truthy(a.data)
           THEN Thrown(JsError(<<"Data required for update">>))
           ELSE Returned(Request("update", a.where, {}, a.data))
      [] a.action = "delete" ->
           Returned(Request("delete", a.where, {}, Undefined))

\* storage: the switch on action, up to the request it awaits.
storageRequest(a) ==
    CASE a.action = "upload" ->
           IF ~Truthy(a.path) \/ ~Truthy(a.data)
           THEN Thrown(JsError(<<"Path and data required">>))
           ELSE Returned(Request("upload", << >>, {}, <<a.path, a.data>>))
      [] a.action = "download" ->
           IF ~Truthy(a.path)
           THEN Thrown(JsError(<<"Path required">>))
           ELSE Returned(Request("download", << >>, {}, a.path))
      [] a.action = "delete" ->
           IF ~Truthy(a.path)
           THEN Thrown(JsError(<<"Path required">>))
           ELSE Returned(Request("remove", << >>, {}, a.path))
      [] a.action = "list" ->
           Returned(Request("list", << >>, {},
                            IF Truthy(a.path) THEN a.path ELSE EmptyString))

\* Mutant: create and delete send their request without looking at their
\* operands.
authRequestUnchecked(a) ==
    CASE a.action = "list" ->
           Returned(Request("listUsers", << >>, {}, Undefined))
      [] a.action = "create" ->
           Returned(Request("createUser", << >>, {}, <<a.email, a.password>>))
      [] a.action = "delete" ->
           Returned(Request("deleteUser", << >>, {}, a.id))

\* auth: the switch on action, up to the request it awaits.
authRequest(a) ==
    CASE a.action = "list" ->
           Returned(Request("listUsers", << >>, {}, Undefined))
      [] a.action = "create" ->
           IF ~Truthy(a.email) \/ ~Truthy(a.password)
           THEN Thrown(JsError(<<"Email and password required">>))
           ELSE Returned(Request("createUser", << >>, {}, <<a.email, a.password>>))
      [] a.action = "delete" ->
           IF ~Truthy(a.id)
           THEN Thrown(JsError(<<"User ID required">>))
           ELSE Returned(Request("deleteUser", << >>, {}, a.id))

ToolRequest(a) ==
    CASE a.tool = "select"  -> selectRequest(a)
      [] a.tool = "mutate"  -> mutateRequest(a)
      [] a.tool = "storage" -> storageRequest(a)
      [] a.tool = "auth"    -> authRequest(a)

(***************************************************************************)
(* The upstream data, storage and auth APIs, as far as the handlers read  *)
(* their answers.  What the upstream holds is the environment's choice:   *)
(* whether the call fails, whether its error carries the optional fields, *)
(* and how many rows, files or users there are.                           *)
(***************************************************************************)
Min(a, b) == IF a <= b THEN a ELSE b

\* The rows of a table: every other one is published.
TableRows(n) ==
    [i \in 1..n |-> [id |-> i,
                     status |-> IF i % 2 = 1 THEN "published" ELSE "draft"]]

\* PostgREST's eq constraints: the rows whose column equals the value, for
\* every constraint of the request.
RowMatches(row, filters) ==
    \A k \in 1..Len(filters) : row[filters[k].column] = filters[k].value
MatchingRows(rows, filters) ==
    SelectSeq(rows, LAMBDA row : RowMatches(row, filters))
FileEntries(n) == [i \in 1..n |-> [name |-> i]]
\* The users of the auth API; one signed up by phone and has an empty email.
UserEntries(n) ==
    [i \in 1..n |-> [id |-> i,
                     email |-> IF i = 2 THEN EmptyString ELSE <<"user", i>>,
                     created_at |-> i,
                     role |-> "authenticated",
                     phone |-> IF i = 2 THEN <<"phone">> ELSE EmptyString]]

\* What the upstream does with one request: it fails or not, with a detailed
\* error or not, it holds n rows; capped says that a read applies the row
\* limit it is sent, as PostgREST does (the server behind the configured or
\* supplied URL need not); broken says that the body of a downloaded file
\* could not be read.
UpstreamChoice(fail, detailed, n) ==
    [fail |-> fail, detailed |-> detailed, n |-> n, capped |-> TRUE,
     broken |-> FALSE]
\* The error file.text() rejects with.
StreamBroke == JsError(<<"stream broke">>)

\* What an SDK call resolves to: {data, error, count}.
Failed(error)       == [failed |-> TRUE, error |-> error, data |-> << >>, count |-> {}]
Succeeded(data)     == [failed |-> FALSE, error |-> JsError(Undefined),
                        data |-> data, count |-> {}]

Optional(present, v) == IF present THEN v ELSE Undefined

\* A PostgREST error is the parsed body of the response, a plain object and
\* not an Error; storage and auth errors are instances of Error subclasses.
PostgrestError(detailed) ==
    ErrorObject("Object", <<"upstream message">>,
                Optional(detailed, <<"upstream details">>),
                Optional(detailed, <<"upstream hint">>),
                <<"42P01">>, Undefined, Undefined)
StorageError(detailed) ==
    ErrorObject("StorageApiError", <<"upstream message">>, Undefined, Undefined,
                Undefined, Undefined, Optional(detailed, <<"404">>))
AuthError(detailed) ==
    ErrorObject("AuthApiError", <<"upstream message">>, Undefined, Undefined,
                Optional(detailed, <<"user_not_found">>),
                Optional(detailed, <<"422">>), Undefined)

\* The answer to one request.  A read of a table of n rows returns the rows
\* that match its constraints: the first limit of them when the request
\* carries a row limit and the upstream applies it, all of them otherwise;
\* count is null, since no handler asks for a count.
UpstreamAnswer(request, choice) ==
    CASE request.op = "select" ->
           IF choice.fail THEN Failed(PostgrestError(choice.detailed))
           ELSE LET rows == MatchingRows(TableRows(choice.n), request.filters)
                IN  IF request.limit = {} \/ ~choice.capped THEN Succeeded(rows)
                    ELSE Succeeded(SubSeq(rows, 1,
                                      Min(CHOOSE l \in request.limit : TRUE, Len(rows))))
      [] request.op \in {"insert", "update", "delete"} ->
           IF choice.fail THEN Failed(PostgrestError(choice.detailed))
           ELSE Succeeded(<< >>)
      [] request.op \in {"upload", "remove"} ->
           IF choice.fail THEN Failed(StorageError(choice.detailed))
           ELSE Succeeded(<< >>)
      [] request.op = "download" ->
           IF choice.fail THEN Failed(StorageError(choice.detailed))
           ELSE Succeeded(IF choice.n = 0 THEN EmptyString ELSE <<"file text">>)
      [] request.op = "list" ->
           IF choice.fail THEN Failed(StorageError(choice.detailed))
           ELSE Succeeded(FileEntries(choice.n))
      [] request.op = "listUsers" ->
           IF choice.fail THEN Failed(AuthError(choice.detailed))
           ELSE Succeeded(UserEntries(choice.n))
      [] request.op = "createUser" ->
           IF choice.fail THEN Failed(AuthError(choice.detailed))
           ELSE Succeeded(<<"new user id">>)
      [] request.op = "deleteUser" ->
           IF choice.fail THEN Failed(AuthError(choice.detailed))
           ELSE Succeeded(<< >>)
      [] request.op \in {"rpc", "sql"} ->
           IF choice.fail THEN Failed(PostgrestError(choice.detailed))
           ELSE Succeeded(TableRows(choice.n))

(***************************************************************************)
(* The response envelope and the shaping of each handler's result.        *)
(***************************************************************************)
\* JSON.stringify(value, null, 2), and a template string of the given parts.
\* The text is kept as the value it serializes; none of the values serialized
\* here has an undefined property, which JSON.stringify would leave out.
JsonText(value)  == [format |-> "json", value |-> value]
PlainText(parts) == [format |-> "plain", value |-> parts]

\* JSON.stringify(undefined): no text at all.
AbsentText == [format |-> "undefined", value |-> Undefined]

Envelope(text) == [content |-> <<[type |-> "text", text |-> text]>>]

\* Array.prototype.slice(start, end) with 0 <= start <= end.
Slice(s, start, end) == SubSeq(s, start + 1, Min(end, Len(s)))

\* result.count || 0
CountOrZero(count) == IF count = {} THEN 0 ELSE CHOOSE n \in count : TRUE

\* error?.message || 'Unknown error'
MessageOf(e) == IF Truthy(e.message) THEN e.message ELSE <<"Unknown error">>

\* `${error}`: [object Object] for a plain object; for an Error the name
\* alone when the message is empty or absent, the message alone when the
\* name is empty, and otherwise name, ": ", message.
ErrorToString(e) ==
    IF e.name = "Object" THEN <<"[object Object]">>
    ELSE LET msg == IF e.message = Undefined THEN EmptyString ELSE e.message
         IN  IF e.name = "" THEN msg
             ELSE IF msg = EmptyString THEN <<e.name>>
             ELSE <<e.name, ": ", msg>>

\* ---- token variant (src/src/index.ts lines 64-675) ----
selectResponse(a, result) ==
    IF result.failed THEN Thrown(result.error)
    ELSE Returned(Envelope(JsonText([data  |-> result.data,
                                     count |-> Len(result.data)])))

mutateResponse(a, result) ==
    IF result.failed THEN Thrown(result.error)
    ELSE Returned(Envelope(JsonText([success  |-> TRUE,
                                     affected |-> CountOrZero(result.count)])))

\* Mutant: the listing is returned without .slice(0, 100).
storageResponseNoSlice(a, result) ==
    IF result.failed THEN Thrown(result.error)
    ELSE CASE a.action = "upload" ->
                Returned(Envelope(PlainText(<<"Uploaded: ", a.path>>)))
           [] a.action = "download" ->
                Returned(Envelope(PlainText(
                    IF Truthy(result.data) THEN result.data ELSE EmptyString)))
           [] a.action = "delete" ->
                Returned(Envelope(PlainText(<<"Deleted: ", a.path>>)))
           [] a.action = "list" ->
                Returned(Envelope(JsonText(result.data)))

storageResponse(a, result) ==
    IF result.failed THEN Thrown(result.error)
    ELSE CASE a.action = "upload" ->
                Returned(Envelope(PlainText(<<"Uploaded: ", a.path>>)))
           [] a.action = "download" ->
                Returned(Envelope(PlainText(
                    IF Truthy(result.data) THEN result.data ELSE EmptyString)))
           [] a.action = "delete" ->
                Returned(Envelope(PlainText(<<"Deleted: ", a.path>>)))
           [] a.action = "list" ->
                Returned(Envelope(JsonText(Slice(result.data, 0, StorageListMax))))

\* users.slice(0, 100).map(u => ({id: u.id, email: u.email, created: u.created_at}))
\* Mutant: the user list is mapped without .slice(0, 100).
userListNoSlice(users) ==
    [i \in 1..Len(users) |->
        [id |-> users[i].id, email |-> users[i].email,
         created |-> users[i].created_at]]

userList(users) ==
    LET first == Slice(users, 0, AuthListMax)
    IN  [i \in 1..Len(first) |->
            [id |-> first[i].id, email |-> first[i].email,
             created |-> first[i].created_at]]

authResponse(a, result) ==
    IF result.failed THEN Thrown(result.error)
    ELSE CASE a.action = "list" ->
                Returned(Envelope(JsonText(userList(result.data))))
           [] a.action = "create" ->
                Returned(Envelope(PlainText(<<"Created user: ", result.data>>)))
           [] a.action = "delete" ->
                Returned(Envelope(PlainText(<<"Deleted user: ", a.id>>)))

ToolResponse(a, result) ==
    CASE a.tool = "select"  -> selectResponse(a, result)
      [] a.tool = "mutate"  -> mutateResponse(a, result)
      [] a.tool = "storage" -> storageResponse(a, result)
      [] a.tool = "auth"    -> authResponse(a, result)

\* The catch blocks: throw new Error(`<Tool> failed: ...`).
WhenTruthy(v, parts) == IF Truthy(v) THEN parts ELSE << >>

selectCatch(e) ==
    JsError(<<"Select failed: ", MessageOf(e)>>
            \o WhenTruthy(e.details, <<" - Details: ", e.details>>)
            \o WhenTruthy(e.hint, <<" - Hint: ", e.hint>>))
mutateCatch(e) ==
    JsError(<<"Mutate failed: ", MessageOf(e)>>
            \o WhenTruthy(e.details, <<" - Details: ", e.details>>)
            \o WhenTruthy(e.hint, <<" - Hint: ", e.hint>>))
storageCatch(e) ==
    JsError(<<"Storage failed: ", MessageOf(e)>>
            \o WhenTruthy(e.statusCode, <<" (Status: ", e.statusCode, ")">>))
authCatch(e) ==
    JsError(<<"Auth failed: ", MessageOf(e)>>
            \o WhenTruthy(e.status, <<" (Status: ", e.status, ")">>)
            \o WhenTruthy(e.code, <<" [Code: ", e.code, "]">>))

ToolCatch(a, e) ==
    CASE a.tool = "select"  -> selectCatch(e)
      [] a.tool = "mutate"  -> mutateCatch(e)
      [] a.tool = "storage" -> storageCatch(e)
      [] a.tool = "auth"    -> authCatch(e)

\* ---- static-key variant (src/src/index.ts lines 686-927): the same
\* handlers over a client built once from the configuration ----
\* Mutant: the static-key select has no default limit.
staticSelectRequestNoDefault(a) ==
    Returned(Request("select", a.where, a.limit, Undefined))

staticSelectRequest(a) ==
    Returned(Request("select", a.where, {EffectiveLimit(a.limit)}, Undefined))

\* mutate: the switch on action, up to the request it awaits.
staticMutateRequest(a) ==
    CASE a.action = "insert" ->
           IF ~Truthy(a.data)
           THEN Thrown(JsError(<<"Data required for insert">>))
           ELSE Returned(Request("insert", << >>, {}, a.data))
      [] a.action = "update" ->
           IF ~Truthy(a.data)
           THEN Thrown(JsError(<<"Data required for update">>))
           ELSE Returned(Request("update", a.where, {}, a.data))
      [] a.action = "delete" ->
           Returned(Request("delete", a.where, {}, Undefined))

\* storage: the switch on action, up to the request it awaits.
staticStorageRequest(a) ==
    CASE a.action = "upload" ->
           IF ~Truthy(a.path) \/ ~Truthy(a.data)
           THEN Thrown(JsError(<<"Path and data required">>))
           ELSE Returned(Request("upload", << >>, {}, <<a.path, a.data>>))
      [] a.action = "download" ->
           IF ~Truthy(a.path)
           THEN Thrown(JsError(<<"Path required">>))
           ELSE Returned(Request("download", << >>, {}, a.path))
      [] a.action = "delete" ->
           IF ~Truthy(a.path)
           THEN Thrown(JsError(<<"Path required">>))
           ELSE Returned(Request("remove", << >>, {}, a.path))
      [] a.action = "list" ->
           Returned(Request("list", << >>, {},
                            IF Truthy(a.path) THEN a.path ELSE EmptyString))

\* auth: the switch on action, up to the request it awaits.
staticAuthRequest(a) ==
    CASE a.action = "list" ->
           Returned(Request("listUsers", << >>, {}, Undefined))
      [] a.action = "create" ->
           IF ~Truthy(a.email) \/ ~Truthy(a.password)
           THEN Thrown(JsError(<<"Email and password required">>))
           ELSE Returned(Request("createUser", << >>, {}, <<a.email, a.password>>))
      [] a.action = "delete" ->
           IF ~Truthy(a.id)
           THEN Thrown(JsError(<<"User ID required">>))
           ELSE Returned(Request("deleteUser", << >>, {}, a.id))

staticSelectResponse(a, result) ==
    IF result.failed THEN Thrown(result.error)
    ELSE Returned(Envelope(JsonText([data  |-> result.data,
                                     count |-> Len(result.data)])))

staticMutateResponse(a, result) ==
    IF result.failed THEN Thrown(result.error)
    ELSE Returned(Envelope(JsonText([success  |-> TRUE,
                                     affected |-> CountOrZero(result.count)])))

staticStorageResponse(a, result) ==
    IF result.failed THEN Thrown(result.error)
    ELSE CASE a.action = "upload" ->
                Returned(Envelope(PlainText(<<"Uploaded: ", a.path>>)))
           [] a.action = "download" ->
                Returned(Envelope(PlainText(
                    IF Truthy(result.data) THEN result.data ELSE EmptyString)))
           [] a.action = "delete" ->
                Returned(Envelope(PlainText(<<"Deleted: ", a.path>>)))
           [] a.action = "list" ->
                Returned(Envelope(JsonText(Slice(result.data, 0, StorageListMax))))

\* users.slice(0, 100).map(u => ({id: u.id, email: u.email, created: u.created_at}))
staticUserList(users) ==
    LET first == Slice(users, 0, AuthListMax)
    IN  [i \in 1..Len(first) |->
            [id |-> first[i].id, email |-> first[i].email,
             created |-> first[i].created_at]]

staticAuthResponse(a, result) ==
    IF result.failed THEN Thrown(result.error)
    ELSE CASE a.action = "list" ->
                Returned(Envelope(JsonText(staticUserList(result.data))))
           [] a.action = "create" ->
                Returned(Envelope(PlainText(<<"Created user: ", result.data>>)))
           [] a.action = "delete" ->
                Returned(Envelope(PlainText(<<"Deleted user: ", a.id>>)))

staticToolRequest(a) ==
    CASE a.tool = "select"  -> staticSelectRequest(a)
      [] a.tool = "mutate"  -> staticMutateRequest(a)
      [] a.tool = "storage" -> staticStorageRequest(a)
      [] a.tool = "auth"    -> staticAuthRequest(a)

staticToolResponse(a, result) ==
    CASE a.tool = "select"  -> staticSelectResponse(a, result)
      [] a.tool = "mutate"  -> staticMutateResponse(a, result)
      [] a.tool = "storage" -> staticStorageResponse(a, result)
      [] a.tool = "auth"    -> staticAuthResponse(a, result)

\* catch (error) { throw new Error(`<Tool> failed: ${error}`) }
staticToolCatch(a, e) ==
    CASE a.tool = "select"  -> JsError(<<"Select failed: ", ErrorToString(e)>>)
      [] a.tool = "mutate"  -> JsError(<<"Mutate failed: ", ErrorToString(e)>>)
      [] a.tool = "storage" -> JsError(<<"Storage failed: ", ErrorToString(e)>>)
      [] a.tool = "auth"    -> JsError(<<"Auth failed: ", ErrorToString(e)>>)
      [] a.tool = "query"   -> JsError(<<"Query failed: ", ErrorToString(e)>>)

\* ---- handler-style variant (src/src/index.ts lines 938-1134) and SQL
\* variant (src/unnamed/part_001 lines 145-372): the requests and the catch
\* blocks of the static-key variant, the results returned as plain objects;
\* the SQL variant adds the query tool ----
QueryRowsMax == 100   \* query: result.length > 100, result.slice(0, 100)

\* count || data?.length || 0
CountOr(count, length) ==
    IF CountOrZero(count) # 0 THEN CountOrZero(count) ELSE length

handlerSelectResponse(a, result) ==
    IF result.failed THEN Thrown(result.error)
    ELSE Returned([data  |-> result.data,
                   count |-> CountOr(result.count, Len(result.data))])

handlerMutateResponse(a, result) ==
    IF result.failed THEN Thrown(result.error)
    ELSE Returned([success |-> TRUE, affected |-> CountOrZero(result.count)])

handlerStorageResponse(a, result) ==
    IF result.failed THEN Thrown(result.error)
    ELSE CASE a.action = "upload"   -> Returned([uploaded |-> a.path])
           [] a.action = "download" -> Returned([data |-> result.data])
           [] a.action = "delete"   -> Returned([deleted |-> a.path])
           [] a.action = "list" ->
                Returned([files |-> Slice(result.data, 0, StorageListMax)])

handlerAuthResponse(a, result) ==
    IF result.failed THEN Thrown(result.error)
    ELSE CASE a.action = "list"   -> Returned([users |-> staticUserList(result.data)])
           [] a.action = "create" -> Returned([created |-> result.data])
           [] a.action = "delete" -> Returned([deleted |-> a.id])

\* query: supabase.rpc('exec_sql', { query: sql, params }).single()
queryRequest(a) == Returned(Request("rpc", << >>, {}, <<a.sql, a.params>>))

\* A query result that is an array, as it came; and the reshaped result.
ArrayResult(rows) == [kind |-> "array", rows |-> rows]
LimitedResult(rows, total) == [kind |-> "limited", rows |-> rows, total |-> total]

\* query, when the RPC succeeded: return { result: data }.
queryRpcResponse(a, result) == Returned([result |-> ArrayResult(result.data)])

\* query, after the fallback read: more than 100 rows are reshaped.
queryFallbackResponse(a, result) ==
    IF result.failed THEN Thrown(result.error)
    ELSE Returned([result |->
             IF Len(result.data) > QueryRowsMax
             THEN LimitedResult(Slice(result.data, 0, QueryRowsMax), Len(result.data))
             ELSE ArrayResult(result.data)])

\* The query builder of the SDK has no sql method: calling it is a TypeError.
NoSqlMethod ==
    ErrorObject("TypeError", <<"supabase.from(...).select(...).sql is not a function">>,
                Undefined, Undefined, Undefined, Undefined, Undefined)

\* ---- management-API variants (src/unnamed/part_000 lines 11-176 and
\* src/unnamed/part_001 lines 26-133): tools over api.supabase.com that send
\* the access token of the configuration; no cache, no catch block ----
\* One request to the management API other than the key-issuance request.
ManagementRequest(op, project, bearer, query) ==
    [kind |-> "management", op |-> op, project |-> project, bearer |-> bearer,
     query |-> query]

\* check_access_key: no upstream call; config.supabase_Access_Token is read
\* when the tool is called.
checkAccessKey(config) ==
    IF ~config.present THEN Thrown(ReadOfUndefined("supabase_Access_Token"))
    ELSE Returned(Envelope(PlainText(<<"Your access key is ", config.accessToken>>)))

\* The request a management handler issues with fetch: the headers read
\* config.supabase_Access_Token, a TypeError when there is no config.
managementRequest(a, config) ==
    IF ~config.present THEN Thrown(ReadOfUndefined("supabase_Access_Token"))
    ELSE IF a.tool = "get_access_key"
    THEN Returned([kind |-> "api-keys", project |-> a.project_ref,
                   bearer |-> config.accessToken])
    ELSE IF a.tool = "get_project_list"
    THEN Returned(ManagementRequest("projects", Undefined, config.accessToken, Undefined))
    ELSE IF a.tool = "get_table_list"
    THEN Returned(ManagementRequest("context", a.project_ref, config.accessToken, Undefined))
    ELSE Returned(ManagementRequest("query", a.project_ref, config.accessToken, a.query))

\* The schema the get_table_list handler picks: schemas[4] in part_000,
\* schemas[5] in part_001 (counted from 0).
SchemaIndex(variant) == IF variant = "management" THEN 4 ELSE 5

\* What a management handler returns once it has the answer and its body.
\* get_access_key does not look at the status and reads the first two
\* entries of the body by position; the other tools return (not throw) a
\* text on a status outside 200..299.
managementResponse(variant, a, config, response) ==
    IF a.tool = "get_access_key"
    THEN IF Len(response.body) < 2 THEN Thrown(ReadOfUndefined("api_key"))
         ELSE Returned(Envelope(PlainText(
                  <<"personal access Token : ", config.accessToken,
                    "\nproject annoKey : ", JsonText(response.body[1].api_key),
                    "\nproject service role key: ", JsonText(response.body[2].api_key)>>)))
    ELSE IF ~response.ok
    THEN Returned(Envelope(PlainText(
             <<"Failed to fetch projects (", response.status, " ", response.statusText,
               "). ", response.body>>)))
    ELSE IF a.tool = "get_table_list"
    THEN LET schemas == response.body.databases[1].schemas
             k       == SchemaIndex(variant) + 1
         IN  Returned(Envelope(IF k <= Len(schemas) THEN JsonText(schemas[k])
                               ELSE AbsentText))
    ELSE Returned(Envelope(JsonText(response.body)))

handlerToolResponse(a, result) ==
    CASE a.tool = "select"  -> handlerSelectResponse(a, result)
      [] a.tool = "mutate"  -> handlerMutateResponse(a, result)
      [] a.tool = "storage" -> handlerStorageResponse(a, result)
      [] a.tool = "auth"    -> handlerAuthResponse(a, result)
      [] a.tool = "query"   -> queryFallbackResponse(a, result)

(***************************************************************************)
(* The inputs of the model.                                                *)
(***************************************************************************)
Filter1 == [column |-> "status", value |-> "published"]
Filter2 == [column |-> "id", value |-> 1]

OptionalString(v) == {Undefined, v}

SelectArgs ==
    {Args("select", "", w, l, Undefined, Undefined, Undefined, Undefined, Undefined) :
        w \in {<< >>, <<Filter1>>}, l \in {{}, {2}, {10}, {DefaultLimit + ExtraRows}}}
MutateArgs ==
    {Args("mutate", act, w, {}, d, Undefined, Undefined, Undefined, Undefined) :
        act \in {"insert", "update", "delete"}, w \in {<< >>, <<Filter1, Filter2>>},
        d \in OptionalString(<<"row">>)}
StorageArgs ==
    {Args("storage", act, << >>, {}, d, p, Undefined, Undefined, Undefined) :
        act \in {"upload", "download", "delete", "list"},
        d \in OptionalString(<<"base64">>), p \in OptionalString(<<"path">>)}
AuthArgs ==
    {Args("auth", act, << >>, {}, Undefined, Undefined, e, pw, id) :
        act \in {"list", "create", "delete"}, e \in OptionalString(<<"email">>),
        pw \in OptionalString(<<"password">>), id \in OptionalString(<<"user id">>)}
AllArgs == SelectArgs \cup MutateArgs \cup StorageArgs \cup AuthArgs

\* The arguments of the management tools: project_ref and query.
ManagementArgs(tool, project_ref, query) ==
    [tool |-> tool, action |-> "", where |-> << >>, limit |-> {},
     data |-> Undefined, path |-> Undefined, email |-> Undefined,
     password |-> Undefined, id |-> Undefined,
     project_ref |-> project_ref, query |-> query]
ProjectRefs == {IdAB, IdConstructor}
ManagementInvocations ==
    {Invocation("management", EmptyString, << >>, ManagementArgs(tool, ref, <<"select 1">>)) :
        tool \in ManagementTools, ref \in ProjectRefs}
    \cup {Invocation("listing", EmptyString, << >>, ManagementArgs(tool, ref, Undefined)) :
              tool \in ListingTools, ref \in ProjectRefs}
SchemaCounts == {5, 6}

\* The arguments of the query tool: sql and the optional params.
QueryArgs ==
    {[tool |-> "query", action |-> "", where |-> << >>, limit |-> {},
      data |-> Undefined, path |-> Undefined, email |-> Undefined,
      password |-> Undefined, id |-> Undefined,
      sql |-> <<"select * from t">>, params |-> << >>]}

SelectDefault ==
    Args("select", "", << >>, {}, Undefined, Undefined, Undefined, Undefined, Undefined)

\* Concurrent sessions of the token variant resolving two projects.
ResolverInvocations ==
    {Invocation("token", tok, url, SelectDefault) :
        tok \in Tokens, url \in {UrlAB, UrlCD}}
ResolverChoices == {UpstreamChoice(TRUE, FALSE, 0), UpstreamChoice(FALSE, FALSE, 1)}

\* The configurations createServer is called with, per variant.
OptionalUrl == {Undefined, EmptyString, StaticConfig.supabaseUrl}
OptionalKey == {Undefined, EmptyString, StaticConfig.supabaseKey}
Configs(variant) ==
    {Config(FALSE, Undefined, Undefined, Undefined)} \cup
    IF variant \in {"token", "management", "listing"}
    THEN {Config(TRUE, tok, Undefined, Undefined) :
             tok \in {Undefined, EmptyString, <<"A">>, TokenA}}
    ELSE {Config(TRUE, Undefined, u, k) : u \in OptionalUrl, k \in OptionalKey}
Variants == {"token", "static", "handler", "sql", "management", "listing"}

\* One session at a time, every tool and argument shape, in the token
\* variant and in the variants with a static key.
ToolInvocations ==
    {Invocation("token", TokenA, url, a) : url \in Urls, a \in AllArgs}
    \cup {Invocation(v, EmptyString, << >>, a) :
              v \in {"static", "handler", "sql"}, a \in AllArgs}
    \cup {Invocation("sql", EmptyString, << >>, a) : a \in QueryArgs}
RowCounts == {0, 1, DefaultLimit, DefaultLimit + ExtraRows}
ToolChoices ==
    {UpstreamChoice(TRUE, d, 0) : d \in BOOLEAN}
    \cup {UpstreamChoice(FALSE, FALSE, n) : n \in RowCounts}
    \cup {[UpstreamChoice(FALSE, FALSE, DefaultLimit + ExtraRows)
               EXCEPT !.capped = FALSE]}

(***************************************************************************)
(* The state.                                                              *)
(***************************************************************************)
Tasks == {1, 2}

VARIABLES
    projectKeyCache,  \* the module-global cache of getProjectKeys
    upstreamKeys,     \* the key list of each upstream project
    server,           \* the server of the session: createServer's outcome
    started,          \* how many invocations have started
    pc,               \* where each invocation stands
    inv,              \* its Invocation
    response,         \* the answer to its key-issuance fetch
    keys,             \* what its getProjectKeys call returned
    rejection,        \* what its getProjectKeys call threw
    sent,             \* the upstream requests it has issued, in order
    upstream,         \* the upstream's choice for its data request
    outcome,          \* what it returned or threw
    fetchCount,       \* history: key-issuance requests issued per project id
    failCount,        \* history: getProjectKeys calls that threw after a fetch
    stored,           \* history: the pairs written to the cache, in order
    overlap,          \* history: two fetches for the project were in flight
    storesAtCall      \* history: the cache writes for its project before it began

taskVars == <<pc, inv, response, keys, rejection, sent, upstream, outcome>>
histVars == <<fetchCount, failCount, stored, overlap, storesAtCall>>
vars == <<projectKeyCache, upstreamKeys, server, started, taskVars, histVars>>

\* No createServer call yet; a server that started with the given tools; a
\* createServer call that threw.
NoServer == [state |-> "none", variant |-> "none", tools |-> {},
             config |-> Config(FALSE, Undefined, Undefined, Undefined)]
Started(variant, config, tools) ==
    [state |-> "started", variant |-> variant, tools |-> tools, config |-> config]
StartFailed(variant, config) ==
    [state |-> "failed", variant |-> variant, tools |-> {}, config |-> config]

NoInvocation == Invocation("none", EmptyString, << >>, SelectDefault)
NoResponse   == [rejected |-> FALSE, ok |-> FALSE, status |-> 0,
                 statusText |-> "none", body |-> << >>]
NoKeys       == [serviceRoleKey |-> Undefined, anonKey |-> Undefined]
NoRejection  == JsError(Undefined)
NoChoice     == UpstreamChoice(FALSE, FALSE, 0)
Pending      == [state |-> "pending"]

ThrownOutcome(error)      == [state |-> "thrown", error |-> error]
ReturnedOutcome(envelope) == [state |-> "returned", envelope |-> envelope]

KeyCall(id, bearer)   == [kind |-> "api-keys", project |-> id, bearer |-> bearer]
DataCall(client, req) == [kind |-> "data", client |-> client, request |-> req]

ProjectOf(t) == extractProjectId(inv[t].projectUrl).value

\* The invocations whose key-issuance fetch for id is in flight: issued,
\* answered, or with the body of the answer being read.
Fetching(id) ==
    {u \in Tasks : /\ pc[u] \in {"fetching", "answered", "body"}
                   /\ ProjectOf(u) = id}

Init ==
    /\ projectKeyCache = EmptyCache
    /\ upstreamKeys \in {f \in [UpstreamProjects -> KeyLists(IdAB) \cup KeyLists(IdCD)] :
                            \A id \in UpstreamProjects : f[id] \in KeyLists(id)}
    /\ server = NoServer
    /\ started = 0
    /\ pc = [t \in Tasks |-> "idle"]
    /\ inv = [t \in Tasks |-> NoInvocation]
    /\ response = [t \in Tasks |-> NoResponse]
    /\ keys = [t \in Tasks |-> NoKeys]
    /\ rejection = [t \in Tasks |-> NoRejection]
    /\ sent = [t \in Tasks |-> << >>]
    /\ upstream = [t \in Tasks |-> NoChoice]
    /\ outcome = [t \in Tasks |-> Pending]
    /\ fetchCount = [id \in ProjectIds |-> 0]
    /\ failCount = [id \in ProjectIds |-> 0]
    /\ stored = [id \in ProjectIds |-> << >>]
    /\ overlap = [id \in ProjectIds |-> FALSE]
    /\ storesAtCall = [t \in Tasks |-> 0]

(***************************************************************************)
(* The handlers.  One action is one run of a handler between two awaits.  *)
(***************************************************************************)
ToolRequestOf(i) ==
    IF i.variant = "token" THEN ToolRequest(i.args)
    ELSE IF i.args.tool = "query" THEN queryRequest(i.args)
    ELSE staticToolRequest(i.args)
ToolResponseOf(i, result) ==
    IF i.variant = "token" THEN ToolResponse(i.args, result)
    ELSE IF i.variant = "static" THEN staticToolResponse(i.args, result)
    ELSE handlerToolResponse(i.args, result)
ToolCatchOf(i, e) ==
    IF i.variant = "token" THEN ToolCatch(i.args, e) ELSE staticToolCatch(i.args, e)

\* The handler throws: its catch block wraps the error and the invocation ends.
Throw(t, i, e, sentNow) ==
    /\ pc' = [pc EXCEPT ![t] = "done"]
    /\ sent' = [sent EXCEPT ![t] = sentNow]
    /\ outcome' = [outcome EXCEPT ![t] = ThrownOutcome(ToolCatchOf(i, e))]

\* The handler from the client on: createClient throws when it is given no
\* key; otherwise the handler checks the operands of the action and issues
\* the one request that it then awaits.
Proceed(t, i, url, key, sentNow) ==
    LET build == ToolRequestOf(i)
    IN  IF ~Truthy(key)
        THEN Throw(t, i, JsError(<<"supabaseKey is required.">>), sentNow)
        ELSE IF build.ok
        THEN /\ pc' = [pc EXCEPT ![t] = "calling"]
             /\ sent' = [sent EXCEPT ![t] =
                    Append(sentNow, DataCall(createClient(url, key), build.value))]
             /\ outcome' = outcome
        ELSE Throw(t, i, build.error, sentNow)

\* A tool is called.  The static-key handler uses the client of the server.
\* The token handler extracts the project id and calls getProjectKeys, which
\* returns the cached pair or issues the key-issuance fetch and awaits it;
\* the handler awaits getProjectKeys in either case, so that on a cache hit
\* too it goes on in a later run.
Invoke(t, i) ==
    /\ pc[t] = "idle"
    /\ started < MaxInvocations
    /\ started' = started + 1
    /\ inv' = [inv EXCEPT ![t] = i]
    /\ UNCHANGED <<projectKeyCache, upstreamKeys, server, response, rejection,
                   upstream, failCount, stored>>
    /\ IF i.variant # "token"
       THEN /\ Proceed(t, i, server.config.supabaseUrl, server.config.supabaseKey, << >>)
            /\ UNCHANGED <<keys, fetchCount, overlap, storesAtCall>>
       ELSE LET e == extractProjectId(i.projectUrl)
            IN  IF ~e.ok
                THEN /\ Throw(t, i, e.error, << >>)
                     /\ UNCHANGED <<keys, fetchCount, overlap, storesAtCall>>
                ELSE /\ storesAtCall' = [storesAtCall EXCEPT ![t] = Len(stored[e.value])]
                     /\ IF getProjectKeysCached(projectKeyCache, e.value)
                        THEN /\ keys' = [keys EXCEPT ![t] = CacheGet(projectKeyCache, e.value)]
                             /\ pc' = [pc EXCEPT ![t] = "resolved"]
                             /\ UNCHANGED <<sent, outcome, fetchCount, overlap>>
                        ELSE /\ pc' = [pc EXCEPT ![t] = "fetching"]
                             /\ sent' = [sent EXCEPT ![t] = <<KeyCall(e.value, i.accessToken)>>]
                             /\ fetchCount' = [fetchCount EXCEPT ![e.value] = @ + 1]
                             /\ overlap' = [overlap EXCEPT ![e.value] = @ \/ Fetching(e.value) # {}]
                             /\ UNCHANGED <<keys, outcome>>

\* The session starts: createServer is called with its configuration.
CreateServer(variant, config) ==
    /\ server.state = "none"
    /\ server' = LET made == createServerOf(variant, config)
                 IN  IF made.ok THEN Started(variant, config, made.value)
                     ELSE StartFailed(variant, config)
    /\ UNCHANGED <<projectKeyCache, upstreamKeys, started, taskVars, histVars>>

\* The caller can call the tools that the server of its session registered.
Registered(i) ==
    /\ server.state = "started"
    /\ i.variant = server.variant
    /\ i.args.tool \in server.tools
    /\ i.variant = "token" => i.accessToken = server.config.accessToken

\* A call of a tool of the session's server.
Call(t, i) ==
    /\ pc[t] = "idle"
    /\ Registered(i)
    /\ Invoke(t, i)

\* A tool of a management-API variant is called: check_access_key answers
\* at once, the other handlers issue their fetch and await it.  A handler
\* that throws has no catch block: the caller gets the error as it is.
ManagementCall(t, i) ==
    /\ pc[t] = "idle"
    /\ Registered(i)
    /\ i.variant \in {"management", "listing"}
    /\ started < MaxInvocations
    /\ started' = started + 1
    /\ inv' = [inv EXCEPT ![t] = i]
    /\ IF i.args.tool = "check_access_key"
       THEN LET out == checkAccessKey(server.config)
            IN  /\ pc' = [pc EXCEPT ![t] = "done"]
                /\ outcome' = [outcome EXCEPT ![t] =
                       IF out.ok THEN ReturnedOutcome(out.value)
                       ELSE ThrownOutcome(out.error)]
                /\ UNCHANGED <<sent, fetchCount>>
       ELSE LET build == managementRequest(i.args, server.config)
            IN  IF build.ok
                THEN /\ pc' = [pc EXCEPT ![t] = "requested"]
                     /\ sent' = [sent EXCEPT ![t] = <<build.value>>]
                     /\ fetchCount' =
                            IF build.value.kind = "api-keys"
                               /\ build.value.project \in ProjectIds
                            THEN [fetchCount EXCEPT ![build.value.project] = @ + 1]
                            ELSE fetchCount
                     /\ outcome' = outcome
                ELSE /\ pc' = [pc EXCEPT ![t] = "done"]
                     /\ outcome' = [outcome EXCEPT ![t] = ThrownOutcome(build.error)]
                     /\ UNCHANGED <<sent, fetchCount>>
    /\ UNCHANGED <<projectKeyCache, upstreamKeys, server, response, keys,
                   rejection, upstream, failCount, stored, overlap, storesAtCall>>

\* The management API answers the fetch, or the fetch is rejected.
ManagementServe(t, rejected, schemas) ==
    /\ pc[t] = "requested"
    /\ pc' = [pc EXCEPT ![t] = "responded"]
    /\ response' = [response EXCEPT ![t] =
           IF rejected THEN FetchRejected
           ELSE ManagementEndpoint(upstreamKeys, sent[t][1], schemas)]
    /\ UNCHANGED <<projectKeyCache, upstreamKeys, server, started, inv, keys,
                   rejection, sent, upstream, outcome, histVars>>

\* The handler resumes after await fetch: a rejection ends the invocation;
\* with a response it starts reading the body (response.json(), or
\* response.text() after a failed status check) and awaits it.
ManagementReceive(t) ==
    /\ pc[t] = "responded"
    /\ IF response[t].rejected
       THEN /\ pc' = [pc EXCEPT ![t] = "done"]
            /\ outcome' = [outcome EXCEPT ![t] =
                   ThrownOutcome(JsError(<<"fetch failed">>))]
       ELSE /\ pc' = [pc EXCEPT ![t] = "parsing"]
            /\ outcome' = outcome
    /\ UNCHANGED <<projectKeyCache, upstreamKeys, server, started, inv,
                   response, keys, rejection, sent, upstream, histVars>>

\* The handler resumes with the body and returns its response, or throws.
ManagementBody(t) ==
    /\ pc[t] = "parsing"
    /\ LET out == managementResponse(inv[t].variant, inv[t].args, server.config,
                                     response[t])
       IN  /\ pc' = [pc EXCEPT ![t] = "done"]
           /\ outcome' = [outcome EXCEPT ![t] =
                  IF out.ok THEN ReturnedOutcome(out.value)
                  ELSE ThrownOutcome(out.error)]
    /\ UNCHANGED <<projectKeyCache, upstreamKeys, server, started, inv,
                   response, keys, rejection, sent, upstream, histVars>>

\* The key-issuance endpoint answers the fetch, or the fetch is rejected.
KeyServe(t, rejected) ==
    /\ pc[t] = "fetching"
    /\ pc' = [pc EXCEPT ![t] = "answered"]
    /\ response' = [response EXCEPT ![t] =
           IF rejected THEN FetchRejected
           ELSE ApiKeysEndpoint(upstreamKeys, ProjectOf(t), inv[t].accessToken)]
    /\ UNCHANGED <<projectKeyCache, upstreamKeys, server, started, inv, keys,
                   rejection, sent, upstream, outcome, histVars>>

\* getProjectKeys resumes with the answer of the fetch.  A rejected fetch
\* or a status outside 200..299 makes it throw; otherwise it calls
\* response.json() and awaits the body.
KeyReceive(t) ==
    /\ pc[t] = "answered"
    /\ LET id  == ProjectOf(t)
           got == getProjectKeysFetched(projectKeyCache, id, response[t])
       IN  IF (response[t].rejected \/ ~response[t].ok) /\ ~got[2].ok
           THEN /\ pc' = [pc EXCEPT ![t] = "rejected"]
                /\ projectKeyCache' = got[1]
                /\ rejection' = [rejection EXCEPT ![t] = got[2].error]
                /\ failCount' = [failCount EXCEPT ![id] = @ + 1]
           ELSE /\ pc' = [pc EXCEPT ![t] = "body"]
                /\ UNCHANGED <<projectKeyCache, rejection, failCount>>
    /\ UNCHANGED <<upstreamKeys, server, started, inv, response, keys, sent,
                   upstream, outcome, fetchCount, stored, overlap, storesAtCall>>

\* getProjectKeys resumes with the parsed body: it looks for the two keys,
\* throws when there is no service_role key, and otherwise writes the pair
\* to the cache and returns it.
BodyReceive(t) ==
    /\ pc[t] = "body"
    /\ LET id  == ProjectOf(t)
           got == getProjectKeysFetched(projectKeyCache, id, response[t])
       IN  /\ projectKeyCache' = got[1]
           /\ IF got[2].ok
              THEN /\ pc' = [pc EXCEPT ![t] = "resolved"]
                   /\ keys' = [keys EXCEPT ![t] = got[2].value]
                   /\ stored' = [stored EXCEPT ![id] = Append(@, got[2].value)]
                   /\ UNCHANGED <<rejection, failCount>>
              ELSE /\ pc' = [pc EXCEPT ![t] = "rejected"]
                   /\ rejection' = [rejection EXCEPT ![t] = got[2].error]
                   /\ failCount' = [failCount EXCEPT ![id] = @ + 1]
                   /\ UNCHANGED <<keys, stored>>
    /\ UNCHANGED <<upstreamKeys, server, started, inv, response, sent,
                   upstream, outcome, fetchCount, overlap, storesAtCall>>

\* The token handler resumes after its await of getProjectKeys: with the
\* pair it creates the client and issues its request; with the error its
\* catch block ends the invocation.
Resume(t) ==
    /\ pc[t] \in {"resolved", "rejected"}
    /\ IF pc[t] = "rejected"
       THEN Throw(t, inv[t], rejection[t], sent[t])
       ELSE Proceed(t, inv[t], inv[t].projectUrl, keys[t].serviceRoleKey, sent[t])
    /\ UNCHANGED <<projectKeyCache, upstreamKeys, server, started, inv,
                   response, keys, rejection, upstream, histVars>>

\* The upstream answers the data, storage or auth request; the handler shapes
\* the answer into its response, or throws.  A download that succeeded is
\* not finished yet: the handler calls file.text() and awaits the text.
DataReturn(t, choice) ==
    /\ pc[t] = "calling"
    /\ ~(inv[t].args.tool = "query" /\ Len(sent[t]) = 1)
    /\ LET call   == sent[t][Len(sent[t])]
           result == UpstreamAnswer(call.request, choice)
           out    == ToolResponseOf(inv[t], result)
       IN  /\ upstream' = [upstream EXCEPT ![t] = choice]
           /\ IF call.request.op = "download" /\ ~result.failed
              THEN /\ pc' = [pc EXCEPT ![t] = "reading"]
                   /\ outcome' = outcome
              ELSE /\ pc' = [pc EXCEPT ![t] = "done"]
                   /\ outcome' = [outcome EXCEPT ![t] =
                          IF out.ok THEN ReturnedOutcome(out.value)
                          ELSE ThrownOutcome(ToolCatchOf(inv[t], out.error))]
    /\ UNCHANGED <<projectKeyCache, upstreamKeys, server, started, inv,
                   response, keys, rejection, sent, histVars>>

\* file.text() settles: with the text the handler returns its response; a
\* rejection (the stream of the body broke) goes through the catch block.
TextRead(t, broken) ==
    /\ pc[t] = "reading"
    /\ LET call   == sent[t][Len(sent[t])]
           result == UpstreamAnswer(call.request, upstream[t])
           out    == ToolResponseOf(inv[t], result)
       IN  /\ upstream' = [upstream EXCEPT ![t].broken = broken]
           /\ pc' = [pc EXCEPT ![t] = "done"]
           /\ outcome' = [outcome EXCEPT ![t] =
                  IF broken THEN ThrownOutcome(ToolCatchOf(inv[t], StreamBroke))
                  ELSE IF out.ok THEN ReturnedOutcome(out.value)
                  ELSE ThrownOutcome(ToolCatchOf(inv[t], out.error))]
    /\ UNCHANGED <<projectKeyCache, upstreamKeys, server, started, inv,
                   response, keys, rejection, sent, histVars>>

\* The upstream answers the RPC of the query tool.  On success the handler
\* returns the data; on an error it falls back to a read of _sql_runner,
\* built with .sql(sql): the call of .sql throws, or (with a query builder
\* that has such a method) the handler issues the read and awaits it.
RpcReturn(t, choice, hasSql) ==
    /\ pc[t] = "calling"
    /\ inv[t].args.tool = "query"
    /\ Len(sent[t]) = 1
    /\ LET call   == sent[t][1]
           result == UpstreamAnswer(call.request, choice)
       IN  /\ upstream' = [upstream EXCEPT ![t] = choice]
           /\ IF ~result.failed
              THEN /\ pc' = [pc EXCEPT ![t] = "done"]
                   /\ outcome' = [outcome EXCEPT ![t] =
                          ReturnedOutcome(queryRpcResponse(inv[t].args, result).value)]
                   /\ sent' = sent
              ELSE IF hasSql
              THEN /\ sent' = [sent EXCEPT ![t] =
                          Append(@, DataCall(call.client,
                                             Request("sql", << >>, {}, inv[t].args.sql)))]
                   /\ UNCHANGED <<pc, outcome>>
              ELSE Throw(t, inv[t], NoSqlMethod, sent[t])
    /\ UNCHANGED <<projectKeyCache, upstreamKeys, server, started, inv,
                   response, keys, rejection, histVars>>

\* The caller has its answer; the slot is free for the next invocation.
Complete(t) ==
    /\ pc[t] = "done"
    /\ pc' = [pc EXCEPT ![t] = "idle"]
    /\ inv' = [inv EXCEPT ![t] = NoInvocation]
    /\ response' = [response EXCEPT ![t] = NoResponse]
    /\ keys' = [keys EXCEPT ![t] = NoKeys]
    /\ rejection' = [rejection EXCEPT ![t] = NoRejection]
    /\ sent' = [sent EXCEPT ![t] = << >>]
    /\ upstream' = [upstream EXCEPT ![t] = NoChoice]
    /\ outcome' = [outcome EXCEPT ![t] = Pending]
    /\ storesAtCall' = [storesAtCall EXCEPT ![t] = 0]
    /\ UNCHANGED <<projectKeyCache, upstreamKeys, server, started,
                   fetchCount, failCount, stored, overlap>>

\* The owner of an upstream project rolls its service_role key.
Rotate(id) ==
    /\ upstreamKeys[id] # KeyListRolled(id)
    /\ upstreamKeys' = [upstreamKeys EXCEPT ![id] = KeyListRolled(id)]
    /\ UNCHANGED <<projectKeyCache, server, started, taskVars, histVars>>

\* Concurrent invocations of the token variant.
Next ==
    \/ \E t \in Tasks, i \in ResolverInvocations : Invoke(t, i)
    \/ \E t \in Tasks, rejected \in BOOLEAN : KeyServe(t, rejected)
    \/ \E t \in Tasks : KeyReceive(t)
    \/ \E t \in Tasks : BodyReceive(t)
    \/ \E t \in Tasks : Resume(t)
    \/ \E t \in Tasks, c \in ResolverChoices : DataReturn(t, c)
    \/ \E t \in Tasks : Complete(t)
    \/ \E id \in UpstreamProjects : Rotate(id)

Spec == Init /\ [][Next]_vars

\* One session: its server is created, then its tools are called one at a
\* time.
NextTools ==
    \/ \E v \in Variants : \E c \in Configs(v) : CreateServer(v, c)
    \/ \E i \in ToolInvocations : Call(1, i)
    \/ \E i \in ManagementInvocations : ManagementCall(1, i)
    \/ \E rejected \in BOOLEAN, n \in SchemaCounts : ManagementServe(1, rejected, n)
    \/ ManagementReceive(1)
    \/ ManagementBody(1)
    \/ \E rejected \in BOOLEAN : KeyServe(1, rejected)
    \/ KeyReceive(1)
    \/ BodyReceive(1)
    \/ Resume(1)
    \/ \E c \in ToolChoices : DataReturn(1, c)
    \/ \E broken \in BOOLEAN : TextRead(1, broken)
    \/ \E c \in ToolChoices, hasSql \in BOOLEAN : RpcReturn(1, c, hasSql)
    \/ Complete(1)

SpecTools == Init /\ [][NextTools]_vars

(***************************************************************************)
(* Vocabulary of the properties.                                           *)
(***************************************************************************)
\* An invocation of the token variant that got past extractProjectId.
Resolving(t) ==
    /\ pc[t] # "idle"
    /\ inv[t].variant = "token"
    /\ extractProjectId(inv[t].projectUrl).ok

\* The key-issuance requests an invocation has issued.
KeyCalls(t) == {k \in 1..Len(sent[t]) : sent[t][k].kind = "api-keys"}

\* The data, storage and auth requests an invocation has issued.
DataCalls(t) == {k \in 1..Len(sent[t]) : sent[t][k].kind = "data"}

\* The pair that a key list resolves to.
PairOf(body) ==
    [serviceRoleKey |-> FindApiKey(body, "service_role"),
     anonKey        |-> FindApiKey(body, "anon")]

\* What the handler made of the error thrown inside it.
ThrownMessage(t) == outcome[t].error.message[2]

\* The payload of a returned envelope.
Payload(t) ==
    IF inv[t].variant \in {"token", "static"}
    THEN outcome[t].envelope.content[1].text.value
    ELSE outcome[t].envelope

\* The list in the payload of a storage list or an auth list.
ListPayload(t) ==
    IF inv[t].variant \in {"token", "static"} THEN Payload(t)
    ELSE IF inv[t].args.tool = "storage" THEN Payload(t).files
    ELSE Payload(t).users

Last(s) == s[Len(s)]

(***************************************************************************)
(* C1.  As claimed: once a pair is stored for a project id, every later   *)
(* getProjectKeys call for that id returns that same pair and issues no   *)
(* key-issuance request.                                                   *)
(***************************************************************************)
C1_LaterCallsReturnStoredPair ==
    \A t \in Tasks :
        Resolving(t) =>
            \A j \in 1..storesAtCall[t] :
                /\ keys[t] = stored[ProjectOf(t)][j]
                /\ KeyCalls(t) = {}

\* C1 as amended: a getProjectKeys call that begins when the cache holds a
\* pair for its project id returns the pair the cache holds at that moment,
\* the one written last, and issues no key-issuance request.
C1_CallOnCachedReturnsCachedPair ==
    \A t \in Tasks :
        (Resolving(t) /\ storesAtCall[t] > 0) =>
            /\ keys[t] = stored[ProjectOf(t)][storesAtCall[t]]
            /\ KeyCalls(t) = {}

\* A call began after two different pairs had been written for its project.
C1_Witness ==
    \E t \in Tasks :
        /\ Resolving(t)
        /\ storesAtCall[t] = 2
        /\ stored[ProjectOf(t)][1] # stored[ProjectOf(t)][2]
        /\ pc[t] = "done"

(***************************************************************************)
(* C2.  As claimed: over any interleaving of invocations the Resolver     *)
(* issues exactly one key-issuance request per distinct project id.       *)
(***************************************************************************)
C2_ExactlyOneRequestPerProject ==
    \A id \in ProjectIds : fetchCount[id] <= 1

\* C2 as amended: every request belongs to one getProjectKeys call that
\* missed the cache, and each such call ends by throwing, by caching a pair,
\* or is still waiting; a project is cached exactly when a fetch for it has
\* succeeded; and for a cached project whose fetches never overlapped the
\* requests are one more than the getProjectKeys calls that threw.
C2_OneRequestPerMiss ==
    \A id \in ProjectIds :
        /\ fetchCount[id] = failCount[id] + Len(stored[id]) + Cardinality(Fetching(id))
        /\ id \in DOMAIN projectKeyCache <=> stored[id] # << >>
        /\ (id \in DOMAIN projectKeyCache /\ ~overlap[id]) =>
               fetchCount[id] = failCount[id] + 1

\* A project cached by its second fetch, the first having failed, with no
\* overlap; a later call has been served from the cache.
C2_Witness ==
    \E id \in ProjectIds :
        /\ id \in DOMAIN projectKeyCache
        /\ ~overlap[id]
        /\ failCount[id] = 1
        /\ fetchCount[id] = 2
        /\ started = 3

(***************************************************************************)
(* C3.  As claimed: when two resolutions of the same never-seen project   *)
(* both miss and both fetch, both callers obtain the same pair and the    *)
(* cache ends up holding that same pair.                                   *)
(***************************************************************************)
\* Two live invocations that both missed the cache for the same project and
\* whose fetches both succeeded.
Raced(t, u) ==
    /\ t # u
    /\ Resolving(t) /\ Resolving(u)
    /\ ProjectOf(t) = ProjectOf(u)
    /\ KeyCalls(t) # {} /\ KeyCalls(u) # {}
    /\ keys[t] # NoKeys /\ keys[u] # NoKeys

C3_RacingCallersGetSamePair ==
    \A t, u \in Tasks :
        Raced(t, u) =>
            /\ keys[t] = keys[u]
            /\ projectKeyCache[ProjectOf(t)] = keys[t]

\* C3 as amended: each caller obtains the pair of the key list its own fetch
\* was answered with, and the cache holds the pair written last, which is one
\* of the two; the callers' pairs and the cached pair are the same whenever
\* both fetches were answered with the same key list.
C3_RacingCallersLastWriteWins ==
    \A t, u \in Tasks :
        Raced(t, u) =>
            /\ keys[t] = PairOf(response[t].body)
            /\ keys[u] = PairOf(response[u].body)
            /\ projectKeyCache[ProjectOf(t)] = Last(stored[ProjectOf(t)])
            /\ projectKeyCache[ProjectOf(t)] \in {keys[t], keys[u]}
            /\ response[t].body = response[u].body =>
                   /\ keys[t] = keys[u]
                   /\ projectKeyCache[ProjectOf(t)] = keys[t]

\* Two racing callers hold different pairs, and the cache holds the pair of
\* the fetch that was answered first (the older key list).
C3_Witness ==
    \E t, u \in Tasks :
        /\ Raced(t, u)
        /\ keys[t] # keys[u]
        /\ projectKeyCache[ProjectOf(t)] = keys[t]
        /\ upstreamKeys[ProjectOf(t)] = response[u].body

(***************************************************************************)
(* C4.  When the key-issuance endpoint answers with a non-success status, *)
(* getProjectKeys throws an error that carries the status, and the cache  *)
(* is left exactly as it was.                                              *)
(***************************************************************************)
\* The step in which getProjectKeys resumes with the answer throws that
\* error and writes nothing, and the step in which the handler resumes ends
\* the invocation with it and writes nothing.
C4_NonSuccessThrowsAndLeavesCache ==
    [][\A t \in Tasks :
          /\ (/\ pc[t] = "answered"
              /\ pc'[t] # "answered"
              /\ ~response[t].rejected
              /\ ~response[t].ok) =>
                 /\ projectKeyCache' = projectKeyCache
                 /\ pc'[t] = "rejected"
                 /\ keys'[t] = NoKeys
                 /\ rejection'[t].message =
                        <<"Failed to fetch project keys: ", response[t].status,
                          " ", response[t].statusText>>
          /\ (/\ pc[t] = "rejected"
              /\ pc'[t] # "rejected"
              /\ ~response[t].rejected
              /\ ~response[t].ok) =>
                 /\ projectKeyCache' = projectKeyCache
                 /\ pc'[t] = "done"
                 /\ DataCalls(t) = {}
                 /\ outcome'[t].state = "thrown"
                 /\ outcome'[t].error.message[2] =
                        <<"Failed to fetch project keys: ", response[t].status,
                          " ", response[t].statusText>>]_vars

\* An invocation ended on a 401 while the other project was cached.
C4_Witness ==
    \E t \in Tasks :
        /\ pc[t] = "done"
        /\ response[t].status = 401
        /\ outcome[t].state = "thrown"
        /\ DOMAIN projectKeyCache # {}

(***************************************************************************)
(* C5.  When the key list has no service_role entry getProjectKeys throws *)
(* and writes nothing; every cache entry has a non-empty serviceRoleKey   *)
(* (the anon key may be absent).                                           *)
(***************************************************************************)
C5_CachedPairsHaveServiceRoleKey ==
    /\ \A id \in DOMAIN projectKeyCache :
           /\ Truthy(projectKeyCache[id].serviceRoleKey)
           /\ stored[id] # << >>
           /\ projectKeyCache[id] = Last(stored[id])
    /\ \A t \in Tasks :
           (/\ Resolving(t)
            /\ pc[t] \notin {"fetching", "answered", "body"}
            /\ response[t].ok
            /\ FindApiKey(response[t].body, "service_role") = Undefined) =>
               /\ \/ /\ pc[t] = "rejected"
                     /\ rejection[t].message =
                            <<"Service role key not found in project keys">>
                  \/ /\ pc[t] = "done"
                     /\ outcome[t].state = "thrown"
                     /\ ThrownMessage(t) =
                            <<"Service role key not found in project keys">>
               /\ keys[t] = NoKeys
               /\ DataCalls(t) = {}

\* A fetch was answered with a list without service_role and the project is
\* not cached, while another project is cached without an anon key.
C5_Witness ==
    \E t \in Tasks :
        /\ pc[t] = "done"
        /\ response[t].ok
        /\ FindApiKey(response[t].body, "service_role") = Undefined
        /\ ProjectOf(t) \notin DOMAIN projectKeyCache
        /\ \E id \in DOMAIN projectKeyCache : projectKeyCache[id].anonKey = Undefined

(***************************************************************************)
(* C6.  extractProjectId returns exactly the subdomain for every input    *)
(* that is a project URL https://<id>.supabase.co, and fails with the     *)
(* invalid-URL error for every other input, including a string that only  *)
(* contains such a URL or that goes on after the host.                    *)
(***************************************************************************)
\* The whole of u is https://<id>.supabase.co, <id> a single non-empty label.
IsProjectUrl(u) ==
    /\ Len(u) > Len(HttpsPrefix) + Len(SupabaseCo)
    /\ HasAt(u, 1, HttpsPrefix)
    /\ HasAt(u, Len(u) - Len(SupabaseCo) + 1, SupabaseCo)
    /\ \A k \in (Len(HttpsPrefix) + 1)..(Len(u) - Len(SupabaseCo)) :
           u[k] \notin {".", "/"}

SubdomainOf(u) == SubSeq(u, Len(HttpsPrefix) + 1, Len(u) - Len(SupabaseCo))

C6_ExtractsIdOfProjectUrlsOnly ==
    \A t \in Tasks :
        (pc[t] # "idle" /\ inv[t].variant = "token") =>
            IF IsProjectUrl(inv[t].projectUrl)
            THEN /\ extractProjectId(inv[t].projectUrl).ok
                 /\ ProjectOf(t) = SubdomainOf(inv[t].projectUrl)
            ELSE /\ ~extractProjectId(inv[t].projectUrl).ok
                 /\ pc[t] = "done"
                 /\ outcome[t].state = "thrown"
                 /\ sent[t] = << >>

(***************************************************************************)
(* C7.  A mutate call with action insert and no data fails with the       *)
(* missing-data error before any upstream request is issued, the          *)
(* key-issuance request of the token variant included.                    *)
(***************************************************************************)
InsertWithoutData(t) ==
    /\ pc[t] # "idle"
    /\ inv[t].args.tool = "mutate"
    /\ inv[t].args.action = "insert"
    /\ ~Truthy(inv[t].args.data)
    /\ inv[t].variant = "token" => extractProjectId(inv[t].projectUrl).ok

C7_InsertWithoutDataIssuesNoRequest ==
    \A t \in Tasks :
        InsertWithoutData(t) =>
            /\ sent[t] = << >>
            /\ pc[t] = "done"
            /\ outcome[t].state = "thrown"
            /\ outcome[t].error =
                   ToolCatchOf(inv[t], JsError(<<"Data required for insert">>))

(***************************************************************************)
(* C8.  A successful select response holds no more rows than the limit    *)
(* argument, or than 100 when limit is absent, also when the upstream     *)
(* read returns more rows than that.                                       *)
(***************************************************************************)
SelectReturned(t) ==
    /\ pc[t] = "done"
    /\ inv[t].args.tool = "select"
    /\ outcome[t].state = "returned"

C8_SelectReturnsAtMostLimitRows ==
    \A t \in Tasks :
        SelectReturned(t) =>
            Len(Payload(t).data) <= EffectiveLimit(inv[t].args.limit)

(***************************************************************************)
(* C9.  No tool response carries more than 100 rows, whatever the         *)
(* arguments, a select limit above 100 included.                          *)
(***************************************************************************)
RowsCarried(t) ==
    CASE inv[t].args.tool = "select" -> Len(Payload(t).data)
      [] inv[t].args.tool = "storage" /\ inv[t].args.action = "list" -> Len(ListPayload(t))
      [] inv[t].args.tool = "auth" /\ inv[t].args.action = "list" -> Len(ListPayload(t))
      [] inv[t].args.tool = "query" -> Len(Payload(t).result.rows)
      [] OTHER -> 0

C9_NoResponseCarriesOver100Rows ==
    \A t \in Tasks :
        (pc[t] = "done" /\ outcome[t].state = "returned") => RowsCarried(t) <= 100

(***************************************************************************)
(* C10.  A successful auth list returns at most 100 entries, the first    *)
(* 100 users of the upstream list in upstream order, each with exactly    *)
(* the fields id, email and created.                                      *)
(***************************************************************************)
AuthListReturned(t) ==
    /\ pc[t] = "done"
    /\ inv[t].args.tool = "auth"
    /\ inv[t].args.action = "list"
    /\ outcome[t].state = "returned"

C10_AuthListFirst100Reduced ==
    \A t \in Tasks :
        AuthListReturned(t) =>
            LET users == UserEntries(upstream[t].n)
                out   == ListPayload(t)
            IN  /\ Len(out) <= 100
                /\ Len(out) = Min(100, Len(users))
                /\ \A k \in 1..Len(out) :
                       /\ DOMAIN out[k] = {"id", "email", "created"}
                       /\ out[k].id = users[k].id
                       /\ out[k].email = users[k].email
                       /\ out[k].created = users[k].created_at

\* The upstream holds more than 100 users and the response holds 100.
C10_Witness ==
    \E t \in Tasks :
        /\ AuthListReturned(t)
        /\ upstream[t].n > 100
        /\ Len(ListPayload(t)) = 100

(***************************************************************************)
(* C11.  A mutate update or delete is not rejected for having no filter:  *)
(* once the client exists (and, for update, data is given) exactly one    *)
(* update/delete request is sent, with one equality constraint per entry  *)
(* of where, none when where is absent or empty.                          *)
(***************************************************************************)
\* An update or delete that has its client and, for update, its data.
FilteredWrite(t) ==
    /\ pc[t] \in {"calling", "done"}
    /\ inv[t].args.tool = "mutate"
    /\ inv[t].args.action \in {"update", "delete"}
    /\ inv[t].args.action = "update" => Truthy(inv[t].args.data)
    /\ inv[t].variant = "token" => Truthy(keys[t].serviceRoleKey)

C11_WriteCarriesOneConstraintPerFilter ==
    \A t \in Tasks :
        FilteredWrite(t) =>
            /\ Cardinality(DataCalls(t)) = 1
            /\ \A k \in DataCalls(t) :
                   /\ sent[t][k].request.op = inv[t].args.action
                   /\ sent[t][k].request.filters = inv[t].args.where
                   /\ Len(sent[t][k].request.filters) = Len(inv[t].args.where)

\* A delete without filters went upstream unfiltered and succeeded.
C11_Witness ==
    \E t \in Tasks :
        /\ FilteredWrite(t)
        /\ inv[t].args.action = "delete"
        /\ inv[t].args.where = << >>
        /\ pc[t] = "done"
        /\ outcome[t].state = "returned"
        /\ sent[t][Len(sent[t])].request.filters = << >>

(***************************************************************************)
(* C12.  createServer never fails on its configuration: with a mandatory  *)
(* field absent or malformed the server is returned with no tool          *)
(* registered and no upstream call is made, and with a valid              *)
(* configuration exactly select, mutate, storage and auth are registered. *)
(***************************************************************************)
\* The mandatory fields of the variant are present and well-formed.
ValidConfig(variant, config) ==
    /\ config.present
    /\ IF variant = "token"
       THEN Truthy(config.accessToken) /\ HasAt(config.accessToken, 1, SbpPrefix)
       ELSE IF variant \in {"management", "listing"}
       THEN Truthy(config.accessToken)
       ELSE Truthy(config.supabaseUrl) /\ Truthy(config.supabaseKey)

C12_StartupNeverFails ==
    server.state # "none" =>
        /\ server.state = "started"
        /\ IF ValidConfig(server.variant, server.config)
           THEN server.tools = {"select", "mutate", "storage", "auth"}
           ELSE /\ server.tools = {}
                /\ \A t \in Tasks : sent[t] = << >>

(***************************************************************************)
(* C13.  Every tool invocation performs exactly one upstream call: none   *)
(* issues a second upstream request, and one that returns a result has    *)
(* issued exactly one.                                                     *)
(***************************************************************************)
C13_ExactlyOneUpstreamCall ==
    \A t \in Tasks :
        /\ Len(sent[t]) <= 1
        /\ (pc[t] = "done" /\ outcome[t].state = "returned") => Len(sent[t]) = 1

(***************************************************************************)
(* C14.  Every failure inside a select, mutate, storage, auth or query    *)
(* invocation reaches the caller as a thrown error whose message starts   *)
(* with the prefix of the operation and includes the upstream message     *)
(* and, when present, its details and hint; no failure is turned into a   *)
(* successful response.                                                    *)
(***************************************************************************)
PrefixOf(tool) ==
    CASE tool = "select"  -> "Select failed: "
      [] tool = "mutate"  -> "Mutate failed: "
      [] tool = "storage" -> "Storage failed: "
      [] tool = "auth"    -> "Auth failed: "
      [] tool = "query"   -> "Query failed: "

\* The error the upstream gave to the last request of a finished invocation.
UpstreamError(t) == UpstreamAnswer(Last(sent[t]).request, upstream[t]).error

\* The thrown message has the upstream message right after the prefix:
\* alone, or as the message of the error's string form "<name>: <message>".
IncludesMessage(m, e) ==
    \/ m[2] = e.message
    \/ Len(m[2]) = 3 /\ m[2][2] = ": " /\ m[2][3] = e.message

\* The labelled part follows the message, after the parts before it.
IncludesPart(m, at, label, v) ==
    ~Truthy(v) \/ (Len(m) >= at + 1 /\ m[at] = label /\ m[at + 1] = v)

C14_FailureReachesCaller ==
    \A t \in Tasks :
      inv[t].args.tool \in {"select", "mutate", "storage", "auth", "query"} =>
        /\ (pc[t] = "done" /\ outcome[t].state = "thrown")
              => outcome[t].error.message[1] = PrefixOf(inv[t].args.tool)
        /\ (pc[t] = "done" /\ inv[t].args.tool = "query" /\ Len(sent[t]) = 2)
              => outcome[t].state = "thrown"
        /\ (pc[t] = "done" /\ upstream[t].fail)
              => /\ outcome[t].state = "thrown"
                 /\ LET m == outcome[t].error.message
                        e == UpstreamError(t)
                    IN  /\ IncludesMessage(m, e)
                        /\ IncludesPart(m, 3, " - Details: ", e.details)
                        /\ IncludesPart(m, IF Truthy(e.details) THEN 5 ELSE 3,
                                        " - Hint: ", e.hint)

(***************************************************************************)
(* C15.  Every successful tool invocation returns the envelope            *)
(* {content: [block]} with exactly one block, of type text, whose text is *)
(* the serialized JSON of the payload, for every operation and action of  *)
(* every variant.                                                          *)
(***************************************************************************)
C15_SuccessIsOneJsonTextBlock ==
    \A t \in Tasks :
        (pc[t] = "done" /\ outcome[t].state = "returned")
            => /\ DOMAIN outcome[t].envelope = {"content"}
               /\ Len(outcome[t].envelope.content) = 1
               /\ outcome[t].envelope.content[1].type = "text"
               /\ outcome[t].envelope.content[1].text.format = "json"

(***************************************************************************)
(* C16.  The key cache never shrinks and never changes an existing entry  *)
(* after a later resolution has observed it: once a project is cached     *)
(* with a pair it stays cached with that pair in every later state.       *)
(***************************************************************************)
\* A resolution that began after a store for id, and so read the entry.
Observed(id) ==
    \E t \in Tasks : Resolving(t) /\ ProjectOf(t) = id /\ storesAtCall[t] > 0

C16_ObservedEntryNeverChanges ==
    [][\A id \in DOMAIN projectKeyCache :
           Observed(id) => /\ id \in DOMAIN projectKeyCache'
                           /\ projectKeyCache'[id] = projectKeyCache[id]]_vars

\* C16 as the code has it: the cache never shrinks, and an entry changes only
\* when a fetch lands that was in flight since before the entry was stored;
\* with no fetch for the project in flight the entry stays as it is, whatever
\* the upstream rotates and whether or not the operations using it fail.
C16_EntryChangesOnlyByFetchInFlight ==
    [][\A id \in DOMAIN projectKeyCache :
           /\ id \in DOMAIN projectKeyCache'
           /\ projectKeyCache'[id] # projectKeyCache[id]
                 => \E t \in Fetching(id) :
                        /\ storesAtCall[t] = 0
                        /\ pc[t] = "body" /\ pc'[t] # "body"
                        /\ projectKeyCache'[id] = PairOf(response[t].body)
           /\ Fetching(id) = {} => projectKeyCache'[id] = projectKeyCache[id]]_vars

\* An entry outlived the rotation of its keys and the failure of an operation
\* that used it.
C16_Witness ==
    \E t \in Tasks :
        /\ pc[t] = "done" /\ Resolving(t) /\ storesAtCall[t] > 0
        /\ upstream[t].fail /\ outcome[t].state = "thrown"
        /\ ProjectOf(t) \in DOMAIN projectKeyCache
        /\ projectKeyCache[ProjectOf(t)] = keys[t]
        /\ upstreamKeys[ProjectOf(t)] = KeyListRolled(ProjectOf(t))
        /\ projectKeyCache[ProjectOf(t)] # PairOf(upstreamKeys[ProjectOf(t)])

(***************************************************************************)
(* C17.  With the server configured for the project URL                   *)
(* https://abc123.example.co, select(table = posts, where = {status:      *)
(* published}, limit = 10) succeeds: data is an array of at most 10 rows, *)
(* all satisfying the filters of where, and count equals data.length.     *)
(***************************************************************************)
SelectSettled(t) == pc[t] = "done" /\ inv[t].args.tool = "select"

\* Neither the key endpoint nor the data API refused the invocation.
UpstreamWilling(t) ==
    /\ ~upstream[t].fail
    /\ KeyCalls(t) # {} => Truthy(keys[t].serviceRoleKey)

SelectResult(t) ==
    /\ outcome[t].state = "returned"
    /\ Len(Payload(t).data) <= EffectiveLimit(inv[t].args.limit)
    /\ \A k \in 1..Len(Payload(t).data) : RowMatches(Payload(t).data[k], inv[t].args.where)
    /\ Payload(t).count = Len(Payload(t).data)

ResolvedProject(t) ==
    inv[t].variant = "token" =>
        /\ extractProjectId(inv[t].projectUrl).ok
        /\ Truthy(keys[t].serviceRoleKey)

SelectResultOfRead(t) ==
    /\ outcome[t].state = "returned"
    /\ Last(sent[t]).request.filters = inv[t].args.where
    /\ Last(sent[t]).request.limit = {EffectiveLimit(inv[t].args.limit)}
    /\ Payload(t).data = UpstreamAnswer(Last(sent[t]).request, upstream[t]).data
    /\ upstream[t].capped =>
           Len(Payload(t).data) <= EffectiveLimit(inv[t].args.limit)
    /\ \A k \in 1..Len(Payload(t).data) : RowMatches(Payload(t).data[k], inv[t].args.where)
    /\ Payload(t).count = Len(Payload(t).data)

StorageListReturned(t) ==
    /\ pc[t] = "done"
    /\ inv[t].args.tool = "storage"
    /\ inv[t].args.action = "list"
    /\ outcome[t].state = "returned"

C18_StorageListFirst100 ==
    \A t \in Tasks :
        StorageListReturned(t) =>
            LET files == FileEntries(upstream[t].n)
            IN  IF Len(files) > 100
                THEN ListPayload(t) = SubSeq(files, 1, 100)
                ELSE ListPayload(t) = files

\* The upstream lists more than 100 files and the response holds the first
\* 100 of them.
C18_Witness ==
    \E t \in Tasks :
        /\ StorageListReturned(t)
        /\ upstream[t].n > 100
        /\ Len(ListPayload(t)) = 100
        /\ ListPayload(t)[100] = FileEntries(upstream[t].n)[100]

(***************************************************************************)
(* C19.  In the SQL variant a successful query whose result is an array   *)
(* of more than 100 rows is reshaped to {rows: the first 100, total: N},  *)
(* on the RPC path and the fallback path alike; a result of at most 100   *)
(* rows is returned unchanged.                                             *)
(***************************************************************************)
QueryReturned(t) ==
    /\ pc[t] = "done"
    /\ inv[t].args.tool = "query"
    /\ outcome[t].state = "returned"

C19_QueryResultLimited ==
    \A t \in Tasks :
        QueryReturned(t) =>
            LET rows == TableRows(upstream[t].n)
            IN  Payload(t).result =
                    IF Len(rows) > 100
                    THEN LimitedResult(SubSeq(rows, 1, 100), Len(rows))
                    ELSE ArrayResult(rows)

(***************************************************************************)
(* C20.  A mutate update with no data fails with the missing-data error   *)
(* and no update request is sent upstream, whatever filters are given; a  *)
(* delete never requires data.                                             *)
(***************************************************************************)
MutateWithoutData(t, action) ==
    /\ pc[t] # "idle"
    /\ inv[t].args.tool = "mutate"
    /\ inv[t].args.action = action
    /\ ~Truthy(inv[t].args.data)

C20_UpdateWithoutDataSendsNoUpdate ==
    \A t \in Tasks :
        /\ MutateWithoutData(t, "update") =>
              /\ DataCalls(t) = {}
              /\ pc[t] \notin {"calling", "reading"}
              /\ pc[t] = "done" =>
                     /\ outcome[t].state = "thrown"
                     /\ outcome[t].error =
                            ToolCatchOf(inv[t], JsError(<<"Data required for update">>))
        /\ (MutateWithoutData(t, "delete") /\ pc[t] \in {"calling", "done"}
                /\ ResolvedProject(t)) =>
              /\ Cardinality(DataCalls(t)) = 1
              /\ Last(sent[t]).request.op = "delete"
              /\ (pc[t] = "done" /\ ~upstream[t].fail) => outcome[t].state = "returned"

(***************************************************************************)
(* C21.  In the token variant a tool call whose projectUrl is not a       *)
(* project URL fails with the invalid-URL error as its first step: it     *)
(* uses no cached pair and issues no key-issuance request and no data,    *)
(* storage or auth request (and so writes nothing to the cache).          *)
(***************************************************************************)
C21_InvalidReferenceFailsFirst ==
    \A t \in Tasks :
        (pc[t] # "idle" /\ inv[t].variant = "token"
             /\ ~IsProjectUrl(inv[t].projectUrl)) =>
            /\ pc[t] = "done"
            /\ outcome[t].state = "thrown"
            /\ outcome[t].error =
                   ToolCatchOf(inv[t], JsError(<<"Invalid Supabase project URL">>))
            /\ sent[t] = << >>
            /\ keys[t] = NoKeys

(***************************************************************************)
(* C22.  A storage call fails with the missing-operand error and sends no *)
(* storage request when action is upload and path or data is absent, or   *)
(* action is download or delete and path is absent; list needs no path    *)
(* and lists the bucket root without one.                                  *)
(***************************************************************************)
StorageOperandMissing(t) ==
    /\ pc[t] # "idle"
    /\ inv[t].args.tool = "storage"
    /\ \/ inv[t].args.action = "upload"
          /\ (~Truthy(inv[t].args.path) \/ ~Truthy(inv[t].args.data))
       \/ inv[t].args.action \in {"download", "delete"} /\ ~Truthy(inv[t].args.path)

C22_StorageOperandsChecked ==
    \A t \in Tasks :
        /\ StorageOperandMissing(t) =>
              /\ DataCalls(t) = {}
              /\ pc[t] \notin {"calling", "reading"}
              /\ pc[t] = "done" =>
                     /\ outcome[t].state = "thrown"
                     /\ outcome[t].error =
                            ToolCatchOf(inv[t],
                                JsError(<<IF inv[t].args.action = "upload"
                                          THEN "Path and data required"
                                          ELSE "Path required">>))
        /\ (pc[t] \in {"calling", "done"} /\ inv[t].args.tool = "storage"
                /\ inv[t].args.action = "list" /\ ResolvedProject(t)) =>
              /\ Cardinality(DataCalls(t)) = 1
              /\ Last(sent[t]).request.op = "list"
              /\ Last(sent[t]).request.arg =
                     IF Truthy(inv[t].args.path) THEN inv[t].args.path ELSE EmptyString
              /\ (pc[t] = "done" /\ ~upstream[t].fail) => outcome[t].state = "returned"

(***************************************************************************)
(* C23.  An auth call fails and sends no admin request when action is     *)
(* create and email or password is absent, or action is delete and id is  *)
(* absent; list requires none of email, password and id.                  *)
(***************************************************************************)
AuthOperandMissing(t) ==
    /\ pc[t] # "idle"
    /\ inv[t].args.tool = "auth"
    /\ \/ inv[t].args.action = "create"
          /\ (~Truthy(inv[t].args.email) \/ ~Truthy(inv[t].args.password))
       \/ inv[t].args.action = "delete" /\ ~Truthy(inv[t].args.id)

C23_AuthOperandsChecked ==
    \A t \in Tasks :
        /\ AuthOperandMissing(t) =>
              /\ DataCalls(t) = {}
              /\ pc[t] \notin {"calling", "reading"}
              /\ pc[t] = "done" => outcome[t].state = "thrown"
              /\ (pc[t] = "done" /\ ResolvedProject(t)) =>
                     outcome[t].error =
                         ToolCatchOf(inv[t],
                             JsError(<<IF inv[t].args.action = "create"
                                       THEN "Email and password required"
                                       ELSE "User ID required">>))
        /\ (pc[t] \in {"calling", "done"} /\ inv[t].args.tool = "auth"
                /\ inv[t].args.action = "list" /\ ResolvedProject(t)) =>
              /\ Cardinality(DataCalls(t)) = 1
              /\ Last(sent[t]).request.op = "listUsers"
              /\ (pc[t] = "done" /\ ~upstream[t].fail) => outcome[t].state = "returned"

\* A create with an email and no password, and a static key: it failed
\* and sent no admin request.
C23_Witness ==
    \E t \in Tasks :
        /\ AuthOperandMissing(t)
        /\ inv[t].args.action = "create"
        /\ Truthy(inv[t].args.email)
        /\ inv[t].variant = "static"
        /\ pc[t] = "done"
        /\ sent[t] = << >>
        /\ outcome[t].error.message =
               <<"Auth failed: ", <<"Error", ": ", <<"Email and password required">>>>>>

(***************************************************************************)
(* C24.  The key cache is the only state a tool invocation changes: an    *)
(* invocation for project p leaves the entry of every other project as it *)
(* is, adds or writes the entry of p only when its own key fetch          *)
(* succeeded, and the success or failure of its data request changes no   *)
(* state of the server.                                                    *)
(***************************************************************************)
\* The entry of id differs between the two states of a step.
EntryChanged(id) ==
    \/ (id \in DOMAIN projectKeyCache) # (id \in DOMAIN projectKeyCache')
    \/ /\ id \in DOMAIN projectKeyCache
       /\ id \in DOMAIN projectKeyCache'
       /\ projectKeyCache'[id] # projectKeyCache[id]

C24_OnlyOwnFetchWritesEntry ==
    [][/\ server' = server
       /\ \A id \in ProjectIds :
              EntryChanged(id) =>
                  \E t \in Tasks :
                      /\ pc[t] = "body" /\ pc'[t] = "resolved"
                      /\ ProjectOf(t) = id
                      /\ response[t].ok
                      /\ Truthy(FindApiKey(response[t].body, "service_role"))
                      /\ projectKeyCache'[id] = PairOf(response[t].body)
       /\ \A t \in Tasks :
              (pc[t] \in {"resolved", "rejected", "calling"} /\ pc'[t] # pc[t])
                  => projectKeyCache' = projectKeyCache]_vars

\* An invocation fetched and stored the keys of its project and its data
\* request failed, while the entry of another project stayed as first stored.
C24_Witness ==
    \E t \in Tasks :
        /\ pc[t] = "done" /\ Resolving(t)
        /\ KeyCalls(t) # {} /\ DataCalls(t) # {}
        /\ upstream[t].fail
        /\ ProjectOf(t) \in DOMAIN projectKeyCache
        /\ projectKeyCache[ProjectOf(t)] = keys[t]
        /\ \E q \in DOMAIN projectKeyCache :
               /\ q # ProjectOf(t)
               /\ Len(stored[q]) = 1
               /\ projectKeyCache[q] = stored[q][1]

(***************************************************************************)
(* C25.  In the token variant no table, storage or auth request is sent   *)
(* in an invocation unless the extraction of the project id and the       *)
(* resolution of its keys both succeeded earlier in that invocation; when *)
(* the key resolution fails the invocation ends with the error prefixed   *)
(* by its operation and has sent no data request.                         *)
(***************************************************************************)
\* The key-issuance fetch of the invocation was answered with no usable key.
KeyFetchFailed(t) ==
    /\ pc[t] \in {"rejected", "resolved", "calling", "reading", "done"}
    /\ KeyCalls(t) # {}
    /\ \/ response[t].rejected
       \/ ~response[t].ok
       \/ ~Truthy(FindApiKey(response[t].body, "service_role"))

C25_DataRequestNeedsResolution ==
    \A t \in Tasks :
        (pc[t] # "idle" /\ inv[t].variant = "token") =>
            /\ DataCalls(t) # {} =>
                  /\ extractProjectId(inv[t].projectUrl).ok
                  /\ Truthy(keys[t].serviceRoleKey)
                  /\ Last(sent[t]).client.apikey = keys[t].serviceRoleKey
                  /\ KeyCalls(t) # {} =>
                         /\ response[t].ok
                         /\ keys[t] = PairOf(response[t].body)
                         /\ \A k \in KeyCalls(t), d \in DataCalls(t) : k < d
            /\ KeyFetchFailed(t) =>
                  /\ pc[t] \in {"rejected", "done"}
                  /\ pc[t] = "done" =>
                         /\ outcome[t].state = "thrown"
                         /\ outcome[t].error.message[1] = PrefixOf(inv[t].args.tool)
                  /\ DataCalls(t) = {}

\* A storage call whose key-issuance fetch was refused: it ended with
\* "Storage failed: ..." after its one key-issuance request.
C25_Witness ==
    \E t \in Tasks :
        /\ inv[t].variant = "token"
        /\ inv[t].args.tool = "storage"
        /\ KeyFetchFailed(t)
        /\ ~response[t].rejected /\ ~response[t].ok
        /\ Len(sent[t]) = 1
        /\ pc[t] = "done"
        /\ outcome[t].state = "thrown"
        /\ outcome[t].error.message[1] = "Storage failed: "

(***************************************************************************)
(* C26.  A failed resolution is never remembered: it issues exactly one   *)
(* key-issuance request, and the next resolution for the same project     *)
(* misses the cache and issues a fresh request.                           *)
(***************************************************************************)
\* The step in which the resolution of t fails.
ResolutionFails(t) ==
    /\ pc[t] \in {"answered", "body"}
    /\ failCount'[ProjectOf(t)] = failCount[ProjectOf(t)] + 1

\* The step in which t begins a resolution for id.
ResolutionBegins(t, id) ==
    /\ pc[t] = "idle" /\ pc'[t] # "idle"
    /\ inv'[t].variant = "token"
    /\ extractProjectId(inv'[t].projectUrl).ok
    /\ extractProjectId(inv'[t].projectUrl).value = id

\* As claimed: when a resolution has failed, the project is not cached, so
\* that the resolution beginning next misses.
C26_NextResolutionMisses ==
    [][\A t \in Tasks :
           ResolutionFails(t) =>
               /\ Cardinality(KeyCalls(t)) = 1
               /\ ProjectOf(t) \notin DOMAIN projectKeyCache']_vars

\* As the code has it: a failed resolution has issued one request and leaves
\* the cache as it was; a resolution beginning while the project is not
\* cached, after however many failures, issues a fresh request; it hits
\* only when another resolution has stored the project.
C26_FailureLeavesCacheAsItWas ==
    [][/\ \A t \in Tasks :
              ResolutionFails(t) =>
                  /\ Cardinality(KeyCalls(t)) = 1
                  /\ sent'[t] = sent[t]
                  /\ projectKeyCache' = projectKeyCache
       /\ \A t \in Tasks, id \in UpstreamProjects :
              ResolutionBegins(t, id) =>
                  IF id \in DOMAIN projectKeyCache
                  THEN /\ stored[id] # << >>
                       /\ pc'[t] = "resolved"
                       /\ keys'[t] = projectKeyCache[id]
                       /\ sent'[t] = << >>
                  ELSE /\ pc'[t] = "fetching"
                       /\ fetchCount'[id] = fetchCount[id] + 1
                       /\ sent'[t] = <<KeyCall(id, inv'[t].accessToken)>>]_vars

\* A project became cached by its third resolution, after two failed ones,
\* no two of them at the same time.
C26_Witness ==
    \E id \in UpstreamProjects :
        /\ id \in DOMAIN projectKeyCache
        /\ failCount[id] = 2
        /\ fetchCount[id] = 3
        /\ ~overlap[id]

(***************************************************************************)
(* C27.  Whatever the interleaving of concurrent resolutions for          *)
(* different projects, the cache entry of a project only ever holds a key *)
(* pair that the key-issuance endpoint returned for that project; a fetch *)
(* for another project never writes it.                                   *)
(***************************************************************************)
\* The pairs the endpoint can return for id.
PairsOf(id) == {PairOf(body) : body \in KeyLists(id) \cup {KeyListRolled(id)}}

C27_EntryHoldsPairOfItsProject ==
    [][\A id \in DOMAIN projectKeyCache' :
           /\ projectKeyCache'[id] \in PairsOf(id)
           /\ EntryChanged(id) =>
                  \E t \in Tasks :
                      /\ pc[t] = "body"
                      /\ ProjectOf(t) = id
                      /\ sent[t][1] = KeyCall(id, inv[t].accessToken)
                      /\ projectKeyCache'[id] = PairOf(response[t].body)]_vars

\* Two invocations for different projects are under way at once, each with
\* the keys it fetched, and each project is cached with its own pair.
C27_Witness ==
    \E t, u \in Tasks :
        /\ pc[t] = "calling" /\ pc[u] = "calling"
        /\ KeyCalls(t) # {} /\ KeyCalls(u) # {}
        /\ ProjectOf(t) # ProjectOf(u)
        /\ projectKeyCache[ProjectOf(t)] = keys[t]
        /\ projectKeyCache[ProjectOf(u)] = keys[u]
        /\ keys[t] # keys[u]

(***************************************************************************)
(* C28.  A session obtains the service-role key of a project only if the  *)
(* session's own access token was accepted by the key-issuance endpoint   *)
(* for that project, also when a server instance with another access      *)
(* token has cached the project's keys before.                            *)
(***************************************************************************)
C28_KeyOnlyForAcceptedToken ==
    \A t \in Tasks :
        (Resolving(t) /\ Truthy(keys[t].serviceRoleKey)) =>
            Accepts(inv[t].accessToken, ProjectOf(t))

(***************************************************************************)
(* C29.  The service-role key resolved for project id X is only ever used *)
(* to build a client whose URL is https://X.supabase.co: for every        *)
(* projectUrl that extractProjectId accepts, the host that receives the   *)
(* key is the host of project X.                                          *)
(***************************************************************************)
C29_KeyGoesToItsProjectHost ==
    \A t \in Tasks :
        Resolving(t) =>
            \A k \in DataCalls(t) :
                sent[t][k].client.url = HttpsPrefix \o ProjectOf(t) \o SupabaseCo

(***************************************************************************)
(* C30.  For select, mutate, storage and auth the token variant, once its *)
(* keys are resolved, and the static-key variant issue the same request   *)
(* and return the same success envelope for the same arguments and the    *)
(* same upstream result; they differ in how the client is obtained and in *)
(* the text of their errors.                                               *)
(***************************************************************************)
\* An invocation of one of the two variants that has its client.
WithClient(t) ==
    /\ pc[t] \in {"calling", "reading", "done"}
    /\ inv[t].variant \in {"token", "static"}
    /\ ResolvedProject(t)

C30_TokenAndStaticAgree ==
    \A t \in Tasks :
        WithClient(t) =>
            LET a == inv[t].args
            IN  /\ ToolRequest(a).ok = staticToolRequest(a).ok
                /\ ToolRequest(a).ok = (DataCalls(t) # {})
                /\ DataCalls(t) # {} =>
                      /\ Last(sent[t]).request = ToolRequest(a).value
                      /\ Last(sent[t]).request = staticToolRequest(a).value
                /\ ~ToolRequest(a).ok =>
                      ToolRequest(a).error = staticToolRequest(a).error
                /\ (pc[t] = "done" /\ DataCalls(t) # {}) =>
                      LET answer == UpstreamAnswer(Last(sent[t]).request, upstream[t])
                      IN  /\ ToolResponse(a, answer).ok = staticToolResponse(a, answer).ok
                          /\ (outcome[t].state = "returned") =
                                 (ToolResponse(a, answer).ok /\ ~upstream[t].broken)
                          /\ outcome[t].state = "returned" =>
                                /\ outcome[t].envelope = ToolResponse(a, answer).value
                                /\ outcome[t].envelope = staticToolResponse(a, answer).value

\* A select with no limit in the token variant, after its key fetch, with
\* more than 100 rows upstream: the request and the envelope are those of
\* the static-key handler.
C30_Witness ==
    \E t \in Tasks :
        /\ WithClient(t)
        /\ inv[t].variant = "token"
        /\ KeyCalls(t) # {}
        /\ inv[t].args.tool = "select"
        /\ inv[t].args.limit = {}
        /\ pc[t] = "done"
        /\ upstream[t].n > DefaultLimit
        /\ outcome[t].state = "returned"
        /\ Last(sent[t]).request = staticToolRequest(inv[t].args).value
        /\ outcome[t].envelope =
               staticToolResponse(inv[t].args,
                   UpstreamAnswer(Last(sent[t]).request, upstream[t])).value

====
